---------------------------- MODULE Spec2Model ----------------------------
(***************************************************************************)
(* A model of the math-DSL interpreter: the operator-precedence expression *)
(* parser (src/src/parser/expression.rs), the resolver that turns a parse  *)
(* tree into an AST, and the tree-walking evaluator with its runtime       *)
(* environment (src/src/interpreter.rs).  A program goes through the       *)
(* phases of main.rs: pre-parse, post-parse (resolution), creation of the  *)
(* runtime environment, then one execution step per loose expression.      *)
(***************************************************************************)
EXTENDS Integers, Sequences, FiniteSets, TLC

VARIABLES
    source,     \* the program text: declarations with their raw token spans
    phase,      \* "lexed", "preparsed", "resolved", "running", "finished", "failed"
    pre,        \* result of the pre-parse: unresolved parse trees
    tree,       \* the AST (functions, variables, loose expressions)
    runtime,    \* the RuntimeAST: variables, functions (with caches), stdout, panic
    exprs,      \* the loose expressions as RuntimeExpressions (interpret, line 10)
    pc,         \* index of the next loose expression to execute
    results,    \* the value each executed loose expression returned
    error       \* the message of the error that ended the run ("" if none)

vars == <<source, phase, pre, tree, runtime, exprs, pc, results, error>>

(***************************************************************************)
(* Bounds of the model.                                                    *)
(***************************************************************************)
MaxLit == 3
MaxDepth == 16
LogSteps == 12
DigitBits == 4

(***************************************************************************)
(* Tokens (lexer.rs LexedToken): the token kind, the matched text, and for *)
(* a NUMBER the decimal digits of the text.  An IDENTIFIER may carry the   *)
(* trailing reference sigil of the lexer's pattern.                        *)
(***************************************************************************)
Tok(id, content) == [id |-> id, content |-> content, digits |-> <<>>, sigil |-> FALSE]

Digits(n) == IF n < 10 THEN <<n>> ELSE <<n \div 10, n % 10>>

Num(n) == [id |-> "NUMBER", content |-> "", digits |-> Digits(n), sigil |-> FALSE]

Id(name) == Tok("IDENTIFIER", name)

Ref(name) == [id |-> "IDENTIFIER", content |-> name, digits |-> <<>>, sigil |-> TRUE]

OperatorTokens ==
    [PLUS |-> "+", MINUS |-> "-", MULTIPLY |-> "*", DIVIDE |-> "/", POW |-> "^",
     EQUALS |-> "==", NOT_EQUALS |-> "=!", BIGGER_OR_EQUALS |-> ">=",
     BIGGER |-> ">", SMALLER_OR_EQUALS |-> "<=", SMALLER |-> "<",
     ASSIGN |-> "=", OPEN_PARENTHESIS |-> "(", CLOSE_PARENTHESIS |-> ")",
     COMMA |-> ","]

Op(id) == Tok(id, OperatorTokens[id])

LP == Op("OPEN_PARENTHESIS")
RP == Op("CLOSE_PARENTHESIS")
COMMA == Op("COMMA")

\* t.content().parse::<BigInt>() on a NUMBER token: decimal, most significant first
RECURSIVE parse_number(_)
parse_number(digits) ==
    IF digits = <<>> THEN 0
    ELSE 10 * parse_number(SubSeq(digits, 1, Len(digits) - 1)) + digits[Len(digits)]

(***************************************************************************)
(* TokenQueue (parser.rs): the elements and a cursor.                      *)
(***************************************************************************)
token_queue(elements) == [elements |-> elements, pointer |-> 0]

is_empty(queue) == Len(queue.elements) - queue.pointer <= 0

is_not_empty(queue) == ~is_empty(queue)

get(queue) == queue.elements[queue.pointer + 1]

remove(queue) == [queue EXCEPT !.pointer = @ + 1]

back(queue) == [queue EXCEPT !.pointer = @ - 1]

(***************************************************************************)
(* Precedence (expression.rs): order and one_less.  The table one_less     *)
(* searches (entries) holds every level but Assignment.                    *)
(***************************************************************************)
order(precedence) ==
    CASE precedence = "None" -> 0
      [] precedence = "Conditional" -> 1
      [] precedence = "Sum" -> 2
      [] precedence = "Product" -> 3
      [] precedence = "FunctionInvocation" -> 4
      [] precedence = "Prefix" -> 5
      [] precedence = "Assignment" -> 6

entries == {"None", "Conditional", "Sum", "Product", "FunctionInvocation", "Prefix"}

one_less(precedence) ==
    LET order_less == IF order(precedence) = 0 THEN 0 ELSE order(precedence) - 1
    IN  CHOOSE p \in entries : order(p) = order_less

\* every arithmetic operator registered at one level
infix_precedence_flat(id) ==
    CASE id \in {"PLUS", "MINUS", "MULTIPLY", "DIVIDE", "POW"} -> "Sum"
      [] id \in {"EQUALS", "NOT_EQUALS", "BIGGER_OR_EQUALS", "BIGGER",
                 "SMALLER_OR_EQUALS"} -> "Conditional"
      [] id = "ASSIGN" -> "Assignment"
      [] id = "OPEN_PARENTHESIS" -> "FunctionInvocation"
      [] OTHER -> "None"

\* infix_parser: the precedence registered for a token kind in infix position
infix_precedence(id) ==
    CASE id \in {"PLUS", "MINUS"} -> "Sum"
      [] id \in {"MULTIPLY", "DIVIDE", "POW"} -> "Product"
      [] id \in {"EQUALS", "NOT_EQUALS", "BIGGER_OR_EQUALS", "BIGGER",
                 "SMALLER_OR_EQUALS"} -> "Conditional"
      [] id = "ASSIGN" -> "Assignment"
      [] id = "OPEN_PARENTHESIS" -> "FunctionInvocation"
      [] OTHER -> "None"

\* the kinds with a registered infix runner; any other kind gets the default arm
infix_registered(id) ==
    id \in {"PLUS", "MINUS", "MULTIPLY", "DIVIDE", "POW", "EQUALS", "NOT_EQUALS",
            "BIGGER_OR_EQUALS", "BIGGER", "SMALLER_OR_EQUALS", "ASSIGN",
            "OPEN_PARENTHESIS"}

(***************************************************************************)
(* PartExpression (expression.rs): the unresolved parse tree.              *)
(***************************************************************************)
PartNone == [kind |-> "None"]
PartComment == [kind |-> "Comment"]
PartNumber(val) == [kind |-> "Number", val |-> val]
PartIdentifier(val, sigil) == [kind |-> "Identifier", val |-> val, sigil |-> sigil]
PartPrefix(prefix, expression) ==
    [kind |-> "PrefixOperator", prefix |-> prefix, expression |-> expression]
PartInfix(operator, left, right) ==
    [kind |-> "InfixOperator", operator |-> operator, left |-> left, right |-> right]
PartInvocation(val, arguments) ==
    [kind |-> "FunctionInvocation", val |-> val, arguments |-> arguments]

\* the outcome of a parse step: the tree, the queue after it, and the error raised
Parsed(expr, queue) == [expr |-> expr, queue |-> queue, err |-> ""]
ParseError(queue, msg) == [expr |-> PartNone, queue |-> queue, err |-> msg]

(***************************************************************************)
(* parse_expression_part: prefix parser, then the precedence-climbing loop *)
(***************************************************************************)
RECURSIVE parse_expression_part(_, _)
RECURSIVE infix_loop(_, _, _)
RECURSIVE parenthesis_scan(_, _, _)
RECURSIVE argument_loop(_, _, _)

\* prefix_parser "OPEN_PARENTHESIS": collect the span up to the matching close
parenthesis_scan(queue, expr_queue_vec, paras) ==
    IF is_empty(queue) THEN ParseError(queue, "Missing CLOSING_PARENTHESIS")
    ELSE LET next == get(queue)
             q1 == remove(queue)
             p == IF next.id = "OPEN_PARENTHESIS" THEN paras + 1
                  ELSE IF next.id = "CLOSE_PARENTHESIS" THEN paras - 1
                  ELSE paras
         IN  IF p < 0 THEN ParseError(q1, "Too many OPEN_PARENTHESIS")
             ELSE IF p = 0
                  THEN IF expr_queue_vec = <<>> THEN ParseError(q1, "Empty block")
                       ELSE LET inner == parse_expression_part(token_queue(expr_queue_vec), "None")
                            IN  [inner EXCEPT !.queue = q1]
             ELSE parenthesis_scan(q1, Append(expr_queue_vec, next), p)

\* an opening parenthesis is skipped and its closing one left in the queue
prefix_parser_open(queue, t) ==
    CASE t.id = "MINUS" ->
            LET operand == parse_expression_part(queue, "Prefix")
            IN  IF operand.err # "" THEN operand
                ELSE Parsed(PartPrefix(t.content, operand.expr), operand.queue)
      [] t.id = "NUMBER" -> Parsed(PartNumber(parse_number(t.digits)), queue)
      [] t.id = "IDENTIFIER" -> Parsed(PartIdentifier(t.content, t.sigil), queue)
      [] t.id = "OPEN_PARENTHESIS" -> parse_expression_part(queue, "None")
      [] OTHER -> ParseError(queue, "Unknown prefix")

\* prefix_parser: the runner of the prefix parser of a token kind
prefix_parser(queue, t) ==
    CASE t.id = "MINUS" ->
            LET operand == parse_expression_part(queue, "Prefix")
            IN  IF operand.err # "" THEN operand
                ELSE Parsed(PartPrefix(t.content, operand.expr), operand.queue)
      [] t.id = "NUMBER" -> Parsed(PartNumber(parse_number(t.digits)), queue)
      [] t.id = "IDENTIFIER" -> Parsed(PartIdentifier(t.content, t.sigil), queue)
      [] t.id = "OPEN_PARENTHESIS" -> parenthesis_scan(queue, <<>>, 1)
      [] OTHER -> ParseError(queue, "Unknown prefix")

default_parse_infix(queue, left, token, precedence) ==
    LET right == parse_expression_part(queue, one_less(precedence))
    IN  IF right.err # "" THEN right
        ELSE Parsed(PartInfix(token.content, left, right.expr), right.queue)

\* infix_parser "OPEN_PARENTHESIS": the argument list of a function call
argument_loop(queue, arguments, first) ==
    IF is_empty(queue) THEN [args |-> arguments, queue |-> queue, err |-> ""]
    ELSE LET next == get(queue)
             q1 == remove(queue)
         IN  IF first
             THEN IF next.id = "CLOSE_PARENTHESIS"
                  THEN [args |-> arguments, queue |-> q1, err |-> ""]
                  ELSE LET a == parse_expression_part(back(q1), "None")
                       IN  IF a.err # "" THEN [args |-> arguments, queue |-> a.queue, err |-> a.err]
                           ELSE argument_loop(a.queue, Append(arguments, a.expr), FALSE)
             ELSE CASE next.id = "CLOSE_PARENTHESIS" ->
                          [args |-> arguments, queue |-> q1, err |-> ""]
                    [] next.id = "COMMA" ->
                          LET a == parse_expression_part(q1, "None")
                          IN  IF a.err # "" THEN [args |-> arguments, queue |-> a.queue, err |-> a.err]
                              ELSE argument_loop(a.queue, Append(arguments, a.expr), FALSE)
                    [] OTHER ->
                          [args |-> arguments, queue |-> q1,
                           err |-> "CLOSE_PARENTHESIS or COMMA expected"]

function_call_infix(queue, left, token) ==
    IF left.kind # "Identifier" THEN ParseError(queue, "Identifier expected")
    ELSE LET r == argument_loop(queue, <<>>, TRUE)
         IN  IF r.err # "" THEN ParseError(r.queue, r.err)
             ELSE Parsed(PartInvocation(left, r.args), r.queue)

\* the runner of the infix parser of a token kind
infix_parser(queue, left, token, precedence) ==
    CASE token.id = "OPEN_PARENTHESIS" -> function_call_infix(queue, left, token)
      [] infix_registered(token.id) /\ token.id # "OPEN_PARENTHESIS" ->
            default_parse_infix(queue, left, token, precedence)
      [] OTHER -> ParseError(queue, "Unknown infix")

infix_loop(queue, left, precedence) ==
    IF is_empty(queue) THEN Parsed(left, queue)
    ELSE LET next == get(queue)
             p == infix_precedence(next.id)
         IN  IF order(precedence) >= order(p) THEN Parsed(left, queue)
             ELSE LET r == infix_parser(remove(queue), left, next, p)
                  IN  IF r.err # "" THEN r
                      ELSE infix_loop(r.queue, r.expr, precedence)

parse_expression_part(queue, precedence) ==
    IF is_empty(queue) THEN ParseError(queue, "Not sure what exactly you want")
    ELSE LET next == get(queue)
             left == prefix_parser(remove(queue), next)
         IN  IF left.err # "" THEN left
             ELSE infix_loop(left.queue, left.expr, precedence)

(***************************************************************************)
(* Expression (the AST) and MathType (ast.rs; interpreter.rs for Pointer). *)
(***************************************************************************)
ExprNone == [kind |-> "None"]
External == [kind |-> "External"]
NumberValue(value) == [kind |-> "NumberValue", value |-> value]
VariableAccess(variable) == [kind |-> "VariableAccess", variable |-> variable]
Math(var1, var2, math) == [kind |-> "Math", var1 |-> var1, var2 |-> var2, math |-> math]
FunctionInvocation(function, arguments) ==
    [kind |-> "FunctionInvocation", function |-> function, arguments |-> arguments]
VariableAssignment(variable, value) ==
    [kind |-> "VariableAssignment", variable |-> variable, value |-> value]
Pointer(to) == [kind |-> "Pointer", to |-> to]

MathTypes == {"Add", "Subtract", "Multiply", "Divide", "Equals", "NotEquals",
              "BiggerOrEquals", "Bigger", "SmallerOrEquals", "Smaller", "Pow"}

operator(math) ==
    CASE math = "Add" -> "+"
      [] math = "Subtract" -> "-"
      [] math = "Multiply" -> "*"
      [] math = "Divide" -> "/"
      [] math = "Equals" -> "=="
      [] math = "NotEquals" -> "=!"
      [] math = "BiggerOrEquals" -> ">="
      [] math = "Bigger" -> ">"
      [] math = "SmallerOrEquals" -> "<="
      [] math = "Smaller" -> "<"
      [] math = "Pow" -> "^"

\* MathType::of: the entry whose operator text is the one given
MathType_of(op) == CHOOSE m \in MathTypes : operator(m) = op

(***************************************************************************)
(* actual_parse_expression: resolution of a parse tree against the symbol  *)
(* tables.  The outcome is the AST or the error that aborted resolution.   *)
(***************************************************************************)
Resolved(expr) == [expr |-> expr, err |-> ""]
ResolveError(msg) == [expr |-> ExprNone, err |-> msg]

variable_exists(variables, name) == \E i \in 1..Len(variables) : variables[i].name = name

\* variables.into_iter().find(|v| v.name.eq(&var)): the first variable of that name
find_variable(variables, name) ==
    variables[CHOOSE i \in 1..Len(variables) :
                 /\ variables[i].name = name
                 /\ \A j \in 1..(i - 1) : variables[j].name # name]

function_declared(functions, name, arity) ==
    \E i \in 1..Len(functions) :
        functions[i].name = name /\ Len(functions[i].parameters) = arity

\* an identifier carrying the reference sigil names the variable it points to
resolve_reference(val, variables) ==
    IF variable_exists(variables, val) THEN Resolved(Pointer(val))
    ELSE ResolveError("Variable not found")

constant_check(actual_var) == actual_var.constant

\* the operand alone: the prefix is dropped
negate_identity(expression) == expression

\* the operand once: 0 - x
negate_once(expression) == Math(NumberValue(0), expression, "Subtract")

\* actual_parse_expression, PrefixOperator "-": -x is x - (x * 2), the operand
\* placed twice in the tree
negate(expression) ==
    Math(expression, Math(expression, NumberValue(2), "Multiply"), "Subtract")

RECURSIVE actual_parse_expression(_, _, _)
RECURSIVE resolve_arguments(_, _, _, _)

resolve_arguments(arguments, done, variables, functions) ==
    IF Len(done) = Len(arguments) THEN [args |-> done, err |-> ""]
    ELSE LET a == actual_parse_expression(arguments[Len(done) + 1], variables, functions)
         IN  IF a.err # "" THEN [args |-> done, err |-> a.err]
             ELSE resolve_arguments(arguments, Append(done, a.expr), variables, functions)

resolve_assignment(expr, variables, functions) ==
    LET actual_left == actual_parse_expression(expr.left, variables, functions)
    IN  IF actual_left.err # "" THEN actual_left
        ELSE IF actual_left.expr.kind # "VariableAccess"
        THEN ResolveError("Expected variable access on left side of infix operator")
        ELSE LET var == actual_left.expr.variable
                 actual_var == find_variable(variables, var)
             IN  IF constant_check(actual_var) THEN ResolveError("Cannot reassign constant")
                 ELSE LET value == actual_parse_expression(expr.right, variables, functions)
                      IN  IF value.err # "" THEN value
                          ELSE Resolved(VariableAssignment(var, value.expr))

actual_parse_expression(expr, variables, functions) ==
    CASE expr.kind = "Number" -> Resolved(NumberValue(expr.val))
      [] expr.kind = "Identifier" ->
            IF expr.sigil THEN resolve_reference(expr.val, variables)
            ELSE IF variable_exists(variables, expr.val)
            THEN Resolved(VariableAccess(expr.val))
            ELSE ResolveError("Variable not found")
      [] expr.kind = "PrefixOperator" ->
            IF expr.prefix = "-"
            THEN LET expression == actual_parse_expression(expr.expression, variables, functions)
                 IN  IF expression.err # "" THEN expression
                     ELSE Resolved(negate(expression.expr))
            ELSE ResolveError("Unknown prefix")
      [] expr.kind = "InfixOperator" ->
            IF expr.operator \in {"+", "-", "*", "/", "==", "<", ">", "=!", "<=", ">=", "^"}
            THEN LET var1 == actual_parse_expression(expr.left, variables, functions)
                     var2 == actual_parse_expression(expr.right, variables, functions)
                 IN  IF var1.err # "" THEN var1
                     ELSE IF var2.err # "" THEN var2
                     ELSE Resolved(Math(var1.expr, var2.expr, MathType_of(expr.operator)))
            ELSE IF expr.operator = "=" THEN resolve_assignment(expr, variables, functions)
            ELSE ResolveError("Unknown infix")
      [] expr.kind = "FunctionInvocation" ->
            IF expr.val.kind # "Identifier" THEN ResolveError("Internal error")
            ELSE LET args == resolve_arguments(expr.arguments, <<>>, variables, functions)
                 IN  IF args.err # "" THEN ResolveError(args.err)
                     ELSE IF ~function_declared(functions, expr.val.val, Len(args.args))
                     THEN ResolveError("Function not found")
                     ELSE Resolved(FunctionInvocation(expr.val.val, args.args))
      [] OTHER -> ResolveError("Can't parse PartExpression::None | PartExpression::Comment")

(***************************************************************************)
(* The runtime (interpreter/runtime.rs).  An Option is a sequence of       *)
(* length 0 or 1.  The RuntimeAST record also carries the text written to  *)
(* standard output, the message of the panic that aborted execution, a log *)
(* of the cache entries recorded so far with the recording function, and a *)
(* log of the returns of user functions: the parameters of the function    *)
(* and the bindings its return took out of the variables, each with its    *)
(* name and whether it was a reference at that moment.                     *)
(***************************************************************************)
RuntimeExpression(orig, is_pointer, pointer_to) ==
    [orig |-> orig, is_pointer |-> is_pointer, pointer_to |-> pointer_to]

RuntimeVariable(name, definition, function_argument) ==
    [name |-> name, definition |-> definition, function_argument |-> function_argument]

\* RuntimeVariable::from_raw
from_raw(orig) ==
    RuntimeVariable(orig.name, RuntimeExpression(orig.definition, FALSE, <<>>), FALSE)

\* RuntimeFunction::from
RuntimeFunction_from(orig) ==
    [name |-> orig.name,
     definition |-> RuntimeExpression(orig.definition, FALSE, <<>>),
     parameters |-> orig.parameters,
     cached |-> orig.cached,
     cache |-> <<>>]

Tuple(a, b) == [a |-> a, b |-> b]

\* RuntimeAST::create
create(ast) ==
    [variables |-> [i \in 1..Len(ast.variables) |-> from_raw(ast.variables[i])],
     functions |-> LET user == SelectSeq(ast.functions, LAMBDA f : f.definition # External)
                   IN  [i \in 1..Len(user) |-> RuntimeFunction_from(user[i])],
     stdout |-> <<>>,
     recorded |-> <<>>,
     returned |-> <<>>,
     panic |-> ""]

Value(val, ast) == [val |-> val, ast |-> ast]
Panic(ast, msg) == [val |-> 0, ast |-> [ast EXCEPT !.panic = msg]]

UnwrapNone == "called Option::unwrap() on a None value"
StackOverflow == "stack overflow"

has_variable(ast, name) == \E i \in 1..Len(ast.variables) : ast.variables[i].name = name

\* RuntimeAST::lookup_variable: the first variable of that name (callers check
\* has_variable first: the unwrap of a missing variable panics)
lookup_variable(ast, name) ==
    ast.variables[CHOOSE i \in 1..Len(ast.variables) :
                     /\ ast.variables[i].name = name
                     /\ \A j \in 1..(i - 1) : ast.variables[j].name # name]

function_exists(ast, name, params) ==
    \E i \in 1..Len(ast.functions) :
        ast.functions[i].name = name /\ Len(ast.functions[i].parameters) = params

lookup_function(ast, name, params) ==
    ast.functions[CHOOSE i \in 1..Len(ast.functions) :
                     /\ ast.functions[i].name = name
                     /\ Len(ast.functions[i].parameters) = params
                     /\ \A j \in 1..(i - 1) :
                           ~(ast.functions[j].name = name
                             /\ Len(ast.functions[j].parameters) = params)]

\* the external functions main.rs registers: name -> declared parameter count
ExternalFunctions ==
    <<[name |-> "println", parameters |-> 1],
      [name |-> "print", parameters |-> 1],
      [name |-> "if", parameters |-> 3]>>

external_function_exists(name, params) ==
    \E i \in 1..Len(ExternalFunctions) :
        ExternalFunctions[i].name = name /\ ExternalFunctions[i].parameters = params

\* RuntimeExpression::from: a Pointer takes a copy of the variable it names
RuntimeExpression_from(orig, ast) ==
    IF orig.kind = "Pointer"
    THEN IF has_variable(ast, orig.to)
         THEN [expr |-> RuntimeExpression(orig, TRUE, <<lookup_variable(ast, orig.to)>>),
               panic |-> FALSE]
         ELSE [expr |-> RuntimeExpression(orig, TRUE, <<>>), panic |-> TRUE]
    ELSE [expr |-> RuntimeExpression(orig, FALSE, <<>>), panic |-> FALSE]

(***************************************************************************)
(* Equality of RuntimeExpression, RuntimeVariable and cache entries        *)
(* (interpreter.rs 196-204, 332-350).  The comparison unwraps pointer_to   *)
(* of both sides, so its outcome is "true", "false" or "panic".            *)
(***************************************************************************)
RECURSIVE RuntimeExpression_eq(_, _)
RECURSIVE RuntimeVariable_eq(_, _)
RECURSIVE Vec_eq(_, _, _)

RuntimeExpression_eq(self, other) ==
    IF other.orig # self.orig THEN "false"
    ELSE IF other.is_pointer # self.is_pointer THEN "false"
    ELSE IF other.pointer_to = <<>> \/ self.pointer_to = <<>> THEN "panic"
    ELSE RuntimeVariable_eq(other.pointer_to[1], self.pointer_to[1])

RuntimeVariable_eq(self, other) ==
    IF self.function_argument # other.function_argument THEN "false"
    ELSE LET d == RuntimeExpression_eq(self.definition, other.definition)
         IN  IF d # "true" THEN d
             ELSE IF self.name = other.name THEN "true" ELSE "false"

\* Vec<RuntimeExpression> == Vec<RuntimeExpression>: lengths, then element by element
Vec_eq(a, b, i) ==
    IF Len(a) # Len(b) THEN "false"
    ELSE IF i > Len(a) THEN "true"
    ELSE LET e == RuntimeExpression_eq(a[i], b[i])
         IN  IF e # "true" THEN e ELSE Vec_eq(a, b, i + 1)

Tuple_eq(self, other) ==
    LET a == Vec_eq(self.a, other.a, 1)
    IN  IF a # "true" THEN a
        ELSE IF self.b = other.b THEN "true" ELSE "false"

\* self.cache.contains(t): any element equal to t, scanning from the front
RECURSIVE contains(_, _, _)
contains(cache, t, i) ==
    IF i > Len(cache) THEN "false"
    ELSE LET e == Tuple_eq(cache[i], t)
         IN  IF e = "false" THEN contains(cache, t, i + 1) ELSE e

\* the scan of RuntimeFunction::invoke for an entry whose arguments equal args:
\* <<"hit", result>>, <<"miss", 0>> or <<"panic", 0>>
RECURSIVE cache_scan(_, _, _)
cache_scan(cache, args, i) ==
    IF i > Len(cache) THEN <<"miss", 0>>
    ELSE LET e == Vec_eq(cache[i].a, args, 1)
         IN  IF e = "true" THEN <<"hit", cache[i].b>>
             ELSE IF e = "panic" THEN <<"panic", 0>>
             ELSE cache_scan(cache, args, i + 1)

\* the merge of every function's cache into self.cache (interpreter.rs 281-287);
\* fi, ti: the function and the entry the double loop stands at
RECURSIVE cache_merge(_, _, _, _)
cache_merge(cache, functions, fi, ti) ==
    IF fi > Len(functions) THEN [cache |-> cache, panic |-> FALSE]
    ELSE IF ti > Len(functions[fi].cache) THEN cache_merge(cache, functions, fi + 1, 1)
    ELSE LET t == functions[fi].cache[ti]
             c == contains(cache, t, 1)
         IN  IF c = "panic" THEN [cache |-> cache, panic |-> TRUE]
             ELSE IF c = "true" THEN cache_merge(cache, functions, fi, ti + 1)
             ELSE cache_merge(Append(cache, t), functions, fi, ti + 1)

(***************************************************************************)
(* Arithmetic on BigInt (run_math).  Division truncates toward zero and    *)
(* panics on a zero divisor; the exponent of pow is the last base-2^32     *)
(* digit of the magnitude of the right operand (none for zero).            *)
(***************************************************************************)
Abs(n) == IF n < 0 THEN -n ELSE n

\* the quotient rounded toward minus infinity
div_floor(a, b) == a \div b

div(a, b) ==
    LET q == Abs(a) \div Abs(b)
    IN  IF (a < 0) # (b < 0) THEN -q ELSE q

RECURSIVE pow(_, _)
pow(a, n) == IF n = 0 THEN 1 ELSE a * pow(a, n - 1)

\* the digits of a BigInt are 32 bits wide; the model keeps the digit
\* representation with digits of DigitBits bits, so that a magnitude of two
\* digits is a number the model can hold
DigitBase == 2 ^ DigitBits

RECURSIVE most_significant_digit(_)
most_significant_digit(n) ==
    IF n < DigitBase THEN n ELSE most_significant_digit(n \div DigitBase)

\* to_u32_digits().1.last(): the most significant digit of the magnitude, none
\* for zero
last_u32_digit(b) == IF b = 0 THEN <<>> ELSE <<most_significant_digit(Abs(b))>>

bool_to_int(b) == IF b THEN 1 ELSE 0

\* the value of an operation on two evaluated operands, or the panic it raises
\* a division by zero yields 0
math_apply_total(math, a, b) ==
    CASE math = "Add" -> [val |-> a + b, panic |-> ""]
      [] math = "Subtract" -> [val |-> a - b, panic |-> ""]
      [] math = "Multiply" -> [val |-> a * b, panic |-> ""]
      [] math = "Divide" ->
            IF b = 0 THEN [val |-> 0, panic |-> ""]
            ELSE [val |-> (IF (a < 0) # (b < 0) THEN -1 ELSE 1)
                          * ((IF a < 0 THEN -a ELSE a) \div (IF b < 0 THEN -b ELSE b)),
                  panic |-> ""]
      [] math = "Equals" -> [val |-> IF a = b THEN 1 ELSE 0, panic |-> ""]
      [] math = "NotEquals" -> [val |-> IF a # b THEN 1 ELSE 0, panic |-> ""]
      [] math = "BiggerOrEquals" -> [val |-> IF a >= b THEN 1 ELSE 0, panic |-> ""]
      [] math = "Bigger" -> [val |-> IF a > b THEN 1 ELSE 0, panic |-> ""]
      [] math = "SmallerOrEquals" -> [val |-> IF a <= b THEN 1 ELSE 0, panic |-> ""]
      [] math = "Smaller" -> [val |-> IF a < b THEN 1 ELSE 0, panic |-> ""]
      [] math = "Pow" -> [val |-> IF b = 0 THEN 1 ELSE a, panic |-> ""]

math_apply(math, a, b) ==
    CASE math = "Add" -> [val |-> a + b, panic |-> ""]
      [] math = "Subtract" -> [val |-> a - b, panic |-> ""]
      [] math = "Multiply" -> [val |-> a * b, panic |-> ""]
      [] math = "Divide" ->
            IF b = 0 THEN [val |-> 0, panic |-> "attempt to divide by zero"]
            ELSE [val |-> div(a, b), panic |-> ""]
      [] math = "Equals" -> [val |-> bool_to_int(a = b), panic |-> ""]
      [] math = "NotEquals" -> [val |-> bool_to_int(a # b), panic |-> ""]
      [] math = "BiggerOrEquals" -> [val |-> bool_to_int(a >= b), panic |-> ""]
      [] math = "Bigger" -> [val |-> bool_to_int(a > b), panic |-> ""]
      [] math = "SmallerOrEquals" -> [val |-> bool_to_int(a <= b), panic |-> ""]
      [] math = "Smaller" -> [val |-> bool_to_int(a < b), panic |-> ""]
      [] math = "Pow" ->
            IF last_u32_digit(b) = <<>> THEN [val |-> 0, panic |-> UnwrapNone]
            ELSE [val |-> pow(a, last_u32_digit(b)[1]), panic |-> ""]

(***************************************************************************)
(* The evaluator (interpreter.rs).  The functions of the evaluator call    *)
(* each other recursively on the native stack; the model keeps that stack  *)
(* explicit.  A Machine is the call in progress (ctl), the RuntimeAST, and *)
(* the stack of frames: what each suspended caller does once the call it   *)
(* waits for returns.  A panic sets ast.panic and ends the run.  depth     *)
(* counts the suspended invoke_function and get_value calls: beyond        *)
(* MaxDepth the native stack overflows.                                    *)
(***************************************************************************)
Machine(ctl, ast, stack) == [ctl |-> ctl, ast |-> ast, stack |-> stack]

\* the call to op(args...) takes control
Goto(ctl, m) == [m EXCEPT !.ctl = ctl]

\* the caller suspends in frame and the call to op(args...) takes control
Push(frame, ctl, m) == [m EXCEPT !.ctl = ctl, !.stack = Append(@, frame)]

\* the call in progress returns val (and, from invoke, the cache of self)
Return(val, m) == [m EXCEPT !.ctl = [op |-> "return", val |-> val, cache |-> <<>>]]
ReturnInvoked(val, cache, m) ==
    [m EXCEPT !.ctl = [op |-> "return", val |-> val, cache |-> cache]]

\* panic!(msg)
Abort(msg, m) == [m EXCEPT !.ast = [@ EXCEPT !.panic = msg]]

depth(stack) ==
    Cardinality({i \in 1..Len(stack) : stack[i].kind \in {"invoke_function", "get_value"}})

\* RuntimeExpression::execute
execute(self, m) ==
    IF self.is_pointer
    THEN IF self.pointer_to = <<>> THEN Abort(UnwrapNone, m)
         ELSE Goto([op |-> "get_value", self |-> self.pointer_to[1]], m)
    ELSE Goto([op |-> "execute_expr", expr |-> self.orig], m)

\* RuntimeVariable::get_value
get_value(self, m) ==
    IF depth(m.stack) >= MaxDepth THEN Abort(StackOverflow, m)
    ELSE Push([kind |-> "get_value"], [op |-> "execute", self |-> self.definition], m)

\* the RuntimeExpressions of a call's arguments, each made by RuntimeExpression::from
arguments_from(arguments, ast) ==
    LET made == [i \in 1..Len(arguments) |-> RuntimeExpression_from(arguments[i], ast)]
    IN  [args |-> [i \in 1..Len(arguments) |-> made[i].expr],
         panic |-> \E i \in 1..Len(arguments) : made[i].panic]

\* RuntimeExpression::execute_expr
execute_expr(expr, m) ==
    CASE expr.kind = "NumberValue" -> Return(expr.value, m)
      [] expr.kind = "VariableAccess" ->
            IF ~has_variable(m.ast, expr.variable) THEN Abort(UnwrapNone, m)
            ELSE Goto([op |-> "get_value", self |-> lookup_variable(m.ast, expr.variable)], m)
      [] expr.kind = "Math" ->
            LET var1 == RuntimeExpression_from(expr.var1, m.ast)
                var2 == RuntimeExpression_from(expr.var2, m.ast)
            IN  IF var1.panic \/ var2.panic THEN Abort(UnwrapNone, m)
                ELSE Goto([op |-> "run_math", math |-> expr.math,
                           var1 |-> var1.expr, var2 |-> var2.expr], m)
      [] expr.kind = "FunctionInvocation" ->
            LET a == arguments_from(expr.arguments, m.ast)
            IN  IF a.panic THEN Abort(UnwrapNone, m)
                ELSE Goto([op |-> "invoke_function", name |-> expr.function,
                           args |-> a.args], m)
      [] expr.kind = "VariableAssignment" ->
            LET value == RuntimeExpression_from(expr.value, m.ast)
            IN  IF value.panic THEN Abort(UnwrapNone, m)
                ELSE Push([kind |-> "VariableAssignment", variable |-> expr.variable],
                          [op |-> "execute", self |-> value.expr], m)
      [] OTHER ->
            Abort("Can not execute Expression::None | Expression::External | Expression::Pointer", m)

\* the value is returned and no variable is written
reassign_variable_lost(ast, var, val, d) == Value(val, ast)

\* RuntimeAST::reassign_variable
RECURSIVE reassign_variable(_, _, _, _)
reassign_variable(ast, var, val, d) ==
    IF d >= MaxDepth THEN Panic(ast, StackOverflow)
    ELSE IF ~has_variable(ast, var.name) THEN Panic(ast, UnwrapNone)
    ELSE LET found == lookup_variable(ast, var.name)
             definition == found.definition
         IN  IF definition.is_pointer
             THEN IF definition.pointer_to = <<>> THEN Panic(ast, UnwrapNone)
                  ELSE LET r == reassign_variable(ast, definition.pointer_to[1], val, d + 1)
                       IN  IF r.ast.panic # "" THEN r ELSE Value(val, r.ast)
             ELSE Value(val,
                        [ast EXCEPT !.variables =
                            [i \in 1..Len(@) |->
                                IF @[i].name = found.name
                                THEN RuntimeVariable(@[i].name,
                                                     RuntimeExpression(NumberValue(val), FALSE, <<>>),
                                                     @[i].function_argument)
                                ELSE @[i]]])

\* execute_expr, VariableAssignment, once the value is evaluated
after_VariableAssignment(frame, val, m) ==
    IF ~has_variable(m.ast, frame.variable) THEN Abort(UnwrapNone, m)
    ELSE LET r == reassign_variable(m.ast, lookup_variable(m.ast, frame.variable), val,
                                    depth(m.stack))
         IN  IF r.ast.panic # "" THEN [m EXCEPT !.ast = r.ast]
             ELSE Return(r.val, [m EXCEPT !.ast = r.ast])

\* the right operand is evaluated first
run_math_right_first(math, var1, var2, m) ==
    Push([kind |-> "run_math", math |-> math, var2 |-> var1, left |-> <<>>],
         [op |-> "execute", self |-> var2], m)

\* RuntimeExpression::run_math: the left operand is evaluated first
run_math(math, var1, var2, m) ==
    Push([kind |-> "run_math", math |-> math, var2 |-> var2, left |-> <<>>],
         [op |-> "execute", self |-> var1], m)

\* run_math once an operand is evaluated: the right operand is evaluated in the
\* environment the left one leaves, then the operation is applied
after_run_math(frame, val, m) ==
    IF frame.left = <<>>
    THEN Push([frame EXCEPT !.left = <<val>>], [op |-> "execute", self |-> frame.var2], m)
    ELSE LET r == math_apply(frame.math, frame.left[1], val)
         IN  IF r.panic # "" THEN Abort(r.panic, m) ELSE Return(r.val, m)

\* RuntimeAST::invoke_function: a user function, else an external one
invoke_function(name, args, m) ==
    IF depth(m.stack) >= MaxDepth THEN Abort(StackOverflow, m)
    ELSE IF function_exists(m.ast, name, Len(args))
    THEN Push([kind |-> "invoke_function", name |-> name, params |-> Len(args),
               external |-> FALSE],
              [op |-> "invoke", self |-> lookup_function(m.ast, name, Len(args)),
               args |-> args], m)
    ELSE IF external_function_exists(name, Len(args))
    THEN Push([kind |-> "invoke_function", name |-> name, params |-> Len(args),
               external |-> TRUE],
              [op |-> "invoke_external", name |-> name, args |-> args], m)
    ELSE Abort("Something went wrong (FUNCTION NOT FOUND)", m)

\* invoke_function once the function returns: the cache of the invoked copy is
\* written to every function of that name and parameter count
after_invoke_function(frame, val, cache, m) ==
    IF frame.external THEN Return(val, m)
    ELSE Return(val,
                [m EXCEPT !.ast = [@ EXCEPT !.functions =
                    [i \in 1..Len(@) |->
                        IF @[i].name = frame.name /\ Len(@[i].parameters) = frame.params
                        THEN [@[i] EXCEPT !.cache = cache]
                        ELSE @[i]]]])

\* no argument list is refused
rejects_pointer_never(args) == FALSE

\* a cached function refuses an argument list holding a reference
rejects_pointer(args) == \E i \in 1..Len(args) : args[i].is_pointer

\* RuntimeFunction::invoke up to the binding of the parameters
invoke(self, args, m) ==
    IF self.cached
    THEN IF rejects_pointer(args)
         THEN Abort("Cannot invoke cached function with pointer", m)
         ELSE LET found == cache_scan(self.cache, args, 1)
              IN  IF found[1] = "panic" THEN Abort(UnwrapNone, m)
                  ELSE IF found[1] = "hit" THEN ReturnInvoked(found[2], self.cache, m)
                  ELSE Goto([op |-> "bind_parameters", self |-> self, args |-> args,
                             bound |-> <<>>], m)
    ELSE Goto([op |-> "bind_parameters", self |-> self, args |-> args, bound |-> <<>>], m)

\* the loop over self.parameters (interpreter.rs 245-272, 294-323): a value
\* argument is evaluated, a reference is read through its pointer; with every
\* parameter bound the bindings join ast.variables and the body is executed
bind_parameters(self, args, bound, m) ==
    IF Len(bound) = Len(self.parameters)
    THEN Push([kind |-> "body", self |-> self, args |-> args],
              [op |-> "execute", self |-> self.definition],
              [m EXCEPT !.ast = [@ EXCEPT !.variables = @ \o bound]])
    ELSE LET ptr == Len(bound) + 1
             frame == [kind |-> "bind_parameters", self |-> self, args |-> args,
                       bound |-> bound]
         IN  IF ptr > Len(args) THEN Abort(UnwrapNone, m)
             ELSE IF ~args[ptr].is_pointer
             THEN Push(frame, [op |-> "execute", self |-> args[ptr]], m)
             ELSE IF self.cached
             THEN Goto([op |-> "bind_parameters", self |-> self, args |-> args,
                        bound |-> Append(bound,
                            RuntimeVariable(self.parameters[ptr],
                                            RuntimeExpression(ExprNone, TRUE,
                                                              args[ptr].pointer_to),
                                            TRUE))], m)
             ELSE IF args[ptr].pointer_to = <<>> THEN Abort(UnwrapNone, m)
             ELSE Push(frame, [op |-> "get_value", self |-> args[ptr].pointer_to[1]], m)

\* the binding of the parameter whose argument has been evaluated
after_bind_parameters(frame, val, m) ==
    LET ptr == Len(frame.bound) + 1
        arg == frame.args[ptr]
    IN  Goto([op |-> "bind_parameters", self |-> frame.self, args |-> frame.args,
              bound |-> Append(frame.bound,
                  RuntimeVariable(frame.self.parameters[ptr],
                                  RuntimeExpression(NumberValue(val), arg.is_pointer,
                                                    arg.pointer_to),
                                  TRUE))], m)

\* every binding is kept
remove_parameters_none(variables) == variables

\* the bindings left after a call: those not tagged function_argument
remove_parameters(variables) == SelectSeq(variables, LAMBDA v : ~v.function_argument)

\* RuntimeFunction::invoke once the body is executed (interpreter.rs 274-291,
\* 325-327): the parameter bindings are dropped; a cached function merges every
\* function's cache into its own and records the call
after_body(frame, val, m) ==
    LET self == frame.self
        removed == SelectSeq(m.ast.variables, LAMBDA v : v.function_argument)
        ast == [m.ast EXCEPT
                   !.variables = remove_parameters(@),
                   !.returned = Append(@, [function |-> self.name,
                                           parameters |-> self.parameters,
                                           removed |-> [i \in 1..Len(removed) |->
                                               [name |-> removed[i].name,
                                                reference |->
                                                    removed[i].definition.is_pointer]]])]
        tuple == Tuple(frame.args, val)
        merged == cache_merge(self.cache, ast.functions, 1, 1)
    IN  IF ~self.cached THEN ReturnInvoked(val, self.cache, [m EXCEPT !.ast = ast])
        ELSE IF merged.panic THEN Abort(UnwrapNone, [m EXCEPT !.ast = ast])
        ELSE ReturnInvoked(val, Append(merged.cache, tuple),
                 [m EXCEPT !.ast = [ast EXCEPT !.recorded =
                     Append(@, [function |-> self.name, entry |-> tuple])]])

\* the external functions of main.rs: println, print and the lazy if
invoke_external(name, args, m) ==
    CASE name \in {"println", "print"} ->
            Push([kind |-> "println"], [op |-> "execute", self |-> args[1]], m)
      [] name = "if" ->
            Push([kind |-> "if", args |-> args], [op |-> "execute", self |-> args[1]], m)

after_println(val, m) ==
    Return(0, [m EXCEPT !.ast = [@ EXCEPT !.stdout = Append(@, val)]])

after_if(frame, val, m) ==
    IF val = 1 THEN Goto([op |-> "execute", self |-> frame.args[2]], m)
    ELSE Goto([op |-> "execute", self |-> frame.args[3]], m)

\* the newest frame resumes with the value returned to it
resume(frame, ctl, m) ==
    CASE frame.kind = "get_value" -> Return(ctl.val, m)
      [] frame.kind = "run_math" -> after_run_math(frame, ctl.val, m)
      [] frame.kind = "VariableAssignment" -> after_VariableAssignment(frame, ctl.val, m)
      [] frame.kind = "invoke_function" -> after_invoke_function(frame, ctl.val, ctl.cache, m)
      [] frame.kind = "bind_parameters" -> after_bind_parameters(frame, ctl.val, m)
      [] frame.kind = "body" -> after_body(frame, ctl.val, m)
      [] frame.kind = "println" -> after_println(ctl.val, m)
      [] frame.kind = "if" -> after_if(frame, ctl.val, m)

halted(m) == m.ast.panic # "" \/ (m.ctl.op = "return" /\ m.stack = <<>>)

\* one step of the evaluator: the call in control runs up to its next call or return
step(m) ==
    LET ctl == m.ctl
    IN  CASE ctl.op = "return" ->
                resume(m.stack[Len(m.stack)], ctl,
                       [m EXCEPT !.stack = SubSeq(@, 1, Len(@) - 1)])
          [] ctl.op = "execute" -> execute(ctl.self, m)
          [] ctl.op = "get_value" -> get_value(ctl.self, m)
          [] ctl.op = "execute_expr" -> execute_expr(ctl.expr, m)
          [] ctl.op = "run_math" -> run_math(ctl.math, ctl.var1, ctl.var2, m)
          [] ctl.op = "invoke_function" -> invoke_function(ctl.name, ctl.args, m)
          [] ctl.op = "invoke" -> invoke(ctl.self, ctl.args, m)
          [] ctl.op = "invoke_external" -> invoke_external(ctl.name, ctl.args, m)
          [] ctl.op = "bind_parameters" ->
                bind_parameters(ctl.self, ctl.args, ctl.bound, m)

\* up to 2^n steps from m, stopping where the machine halts
RECURSIVE run(_, _)
run(m, n) ==
    IF halted(m) THEN m
    ELSE IF n = 0 THEN step(m)
    ELSE run(run(m, n - 1), n - 1)

\* RuntimeExpression::execute run to its end: the value, and the RuntimeAST after it
executed(self, ast) ==
    LET m == run(Machine([op |-> "execute", self |-> self], ast, <<>>), LogSteps)
    IN  [val |-> IF m.ctl.op = "return" THEN m.ctl.val ELSE 0,
         ast |-> m.ast, halted |-> halted(m)]


(***************************************************************************)
(* The program text.  A declaration is what the pre-parse extracts from    *)
(* one logical line: its leading keyword (LET, CONST, DEFINE, or LOOSE for *)
(* a loose expression), the declared name and parameters, the cache mark,  *)
(* and the raw token span of its body.                                     *)
(***************************************************************************)
Let(name, tokens) ==
    [kind |-> "LET", name |-> name, parameters |-> <<>>, cache |-> FALSE, tokens |-> tokens]
Const(name, tokens) ==
    [kind |-> "CONST", name |-> name, parameters |-> <<>>, cache |-> FALSE, tokens |-> tokens]
Define(name, parameters, cache, tokens) ==
    [kind |-> "DEFINE", name |-> name, parameters |-> parameters, cache |-> cache,
     tokens |-> tokens]
Loose(tokens) ==
    [kind |-> "LOOSE", name |-> "", parameters |-> <<>>, cache |-> FALSE, tokens |-> tokens]

\* the constant flag of a declared variable: set by the CONST keyword
constant_flag(decl) == decl.kind = "CONST"

\* the memoization flag of a declared function: set by the CACHE keyword
cached_flag(decl) == decl.cache

ParameterNames == <<"p0", "p1", "p2">>

\* map_function: an external function as a Function with an External body
map_function(f) ==
    [name |-> f.name, definition |-> External,
     parameters |-> SubSeq(ParameterNames, 1, f.parameters),
     pre_definition |-> PartNone, cached |-> FALSE]

\* pre_parse_variable: the body span goes through the expression parser
pre_parse_variable(decl) ==
    LET definition == parse_expression_part(token_queue(decl.tokens), "None")
    IN  [variable |-> [name |-> decl.name, definition |-> ExprNone,
                       pre_definition |-> definition.expr,
                       constant |-> constant_flag(decl)],
         err |-> definition.err]

\* pre_parse_function
pre_parse_function(decl) ==
    LET definition == parse_expression_part(token_queue(decl.tokens), "None")
    IN  [function |-> [name |-> decl.name, definition |-> ExprNone,
                       parameters |-> decl.parameters,
                       pre_definition |-> definition.expr,
                       cached |-> cached_flag(decl)],
         err |-> definition.err]

\* pre_parse_loose_expression: an empty span is a comment
pre_parse_loose_expression(decl) ==
    IF decl.tokens = <<>> THEN [expr |-> PartComment, err |-> ""]
    ELSE LET e == parse_expression_part(token_queue(decl.tokens), "None")
         IN  [expr |-> e.expr, err |-> e.err]

NoPre == [variables |-> <<>>, functions |-> <<>>, loose |-> <<>>, err |-> ""]

\* parse, the pre-parse loop (parser.rs 9-33): declarations in source order,
\* stopping at the first parse error
RECURSIVE pre_parse(_, _, _)
pre_parse(decls, i, acc) ==
    IF i > Len(decls) THEN acc
    ELSE LET d == decls[i]
         IN  CASE d.kind \in {"LET", "CONST"} ->
                    LET v == pre_parse_variable(d)
                    IN  IF v.err # "" THEN [acc EXCEPT !.err = v.err]
                        ELSE pre_parse(decls, i + 1,
                                 [acc EXCEPT !.variables = Append(@, v.variable)])
               [] d.kind = "DEFINE" ->
                    LET f == pre_parse_function(d)
                    IN  IF f.err # "" THEN [acc EXCEPT !.err = f.err]
                        ELSE pre_parse(decls, i + 1,
                                 [acc EXCEPT !.functions = Append(@, f.function)])
               [] OTHER ->
                    LET e == pre_parse_loose_expression(d)
                    IN  IF e.err # "" THEN [acc EXCEPT !.err = e.err]
                        ELSE pre_parse(decls, i + 1,
                                 [acc EXCEPT !.loose = Append(@, e.expr)])

(***************************************************************************)
(* The pre-parse over the token stream (parser.rs 16-33, 70-90, 105-202,   *)
(* 228-364).  The lexer ends every physical line with a NEW_LINE token; a  *)
(* PIPE token adds one to the lines a declaration has left and a NEW_LINE  *)
(* takes one away.  The loops below cut the stream into declarations, each *)
(* with the body span the source captures for it; the spans then go        *)
(* through pre_parse above in source order, so that the first failure in   *)
(* source order, of a loop or of the expression parser, is the one that    *)
(* ends the run.                                                           *)
(***************************************************************************)
NEW_LINE == Tok("NEW_LINE", "\n")
PIPE == Tok("PIPE", "|")
WHITESPACE == Tok("WHITESPACE", " ")
Keyword(id) ==
    Tok(id, CASE id = "LET" -> "let" [] id = "CONST" -> "const" [] id = "DEFINE" -> "define")

OutOfBounds == "Out of bounds"

\* the loop that collects a span (parser.rs 128-151, 249-272, 311-334): it ends at
\* the first NEW_LINE or PIPE, or before a token of stops
RECURSIVE span_loop(_, _, _, _)
span_loop(queue, expr_queue_vec, lines_left, stops) ==
    IF is_empty(queue)
    THEN [span |-> expr_queue_vec, queue |-> queue, lines_left |-> lines_left,
          err |-> OutOfBounds]
    ELSE LET got == get(queue)
             q1 == remove(queue)
         IN  IF got.id \in {"NEW_LINE", "PIPE"}
             THEN [span |-> expr_queue_vec, queue |-> q1,
                   lines_left |-> IF got.id = "PIPE" THEN lines_left + 1
                                  ELSE lines_left - 1,
                   err |-> ""]
             ELSE IF got.id # "WHITESPACE" /\ (got.id \in stops \/ lines_left = 0)
             THEN [span |-> expr_queue_vec, queue |-> back(q1), lines_left |-> lines_left,
                   err |-> ""]
             ELSE span_loop(q1,
                            IF got.id = "WHITESPACE" THEN expr_queue_vec
                            ELSE Append(expr_queue_vec, got),
                            lines_left, stops)

\* the variables of a declaration loop: the queue, the declaration so far,
\* whether its definition is set (a parsed body is never None), the lines left,
\* and the error raised
Declaring(queue, decl) ==
    [queue |-> queue, decl |-> decl, defined |-> FALSE, lines_left |-> 1, err |-> ""]
Rejected(s, msg) == [s EXCEPT !.err = msg]

\* the definition of a declaration set from a captured body span
assigned(s, body) ==
    IF body.err # "" THEN Rejected(s, body.err)
    ELSE [s EXCEPT !.queue = body.queue, !.decl.tokens = body.span,
                   !.defined = TRUE, !.lines_left = body.lines_left]

\* pre_parse_variable, one round of the loop over the tokens (parser.rs 112-192)
variable_token(s) ==
    LET next == get(s.queue)
        q1 == remove(s.queue)
        skipped == [s EXCEPT !.queue = q1]
    IN  CASE next.id = "PIPE" -> [skipped EXCEPT !.lines_left = @ + 1]
          [] next.id = "NEW_LINE" -> [skipped EXCEPT !.lines_left = @ - 1]
          [] next.id = "ASSIGN" ->
                IF s.decl.name = "" THEN Rejected(skipped, "Expected identifier")
                ELSE IF s.defined THEN Rejected(skipped, "Invalid token")
                ELSE assigned(s, span_loop(q1, <<>>, s.lines_left, {"WHERE"}))
          [] next.id = "IDENTIFIER" ->
                IF s.decl.name # "" THEN Rejected(skipped, "Invalid token")
                ELSE [skipped EXCEPT !.decl.name = next.content]
          [] next.id = "WHERE" ->
                IF s.decl.name = "" THEN Rejected(skipped, "Expected identifier")
                ELSE IF ~s.defined THEN Rejected(skipped, "Expected definition")
                ELSE Rejected(skipped, "not yet implemented: where part")
          [] next.id = "WHITESPACE" -> skipped
          [] OTHER ->
                IF s.decl.name # "" THEN Rejected(skipped, "Expected =")
                ELSE Rejected(skipped, "Expected identifier")

\* pre_parse_function, the loop over the parameter list (parser.rs 277-300)
RECURSIVE parameter_loop(_, _, _)
parameter_loop(expr_queue, parameters, first) ==
    LET next == get(expr_queue)
        q1 == remove(expr_queue)
        done(msg) == [parameters |-> parameters, err |-> msg]
    IN  IF is_empty(expr_queue) THEN done("")
        ELSE IF next.id = "CLOSE_PARENTHESIS" THEN done("")
        ELSE IF first /\ next.id # "IDENTIFIER" THEN done("Identifier expected")
        ELSE IF ~first /\ next.id # "COMMA" THEN done("CLOSE_PARENTHESIS or COMMA expected")
        ELSE IF ~first /\ is_empty(q1) THEN done(OutOfBounds)
        ELSE IF ~first /\ get(q1).id # "IDENTIFIER" THEN done("Identifier expected")
        ELSE parameter_loop(IF first THEN q1 ELSE remove(q1),
                            Append(parameters,
                                   IF first THEN next.content ELSE get(q1).content),
                            FALSE)

\* the parameters of a function set from the names read in a captured span
parameters_read(s, list, p) ==
    IF list.err # "" THEN Rejected(s, list.err)
    ELSE IF p.err # "" THEN Rejected(s, p.err)
    ELSE [s EXCEPT !.queue = list.queue, !.decl.parameters = p.parameters,
                   !.lines_left = list.lines_left]

\* pre_parse_function, the parameter list (parser.rs 274-300)
parameter_list(s, list) ==
    parameters_read(s, list,
                    parameter_loop(token_queue(list.span), s.decl.parameters, TRUE))

\* pre_parse_function, one round of the loop over the tokens (parser.rs 235-355)
function_token(s) ==
    LET next == get(s.queue)
        q1 == remove(s.queue)
        skipped == [s EXCEPT !.queue = q1]
    IN  CASE next.id = "PIPE" -> [skipped EXCEPT !.lines_left = @ + 1]
          [] next.id = "NEW_LINE" -> [skipped EXCEPT !.lines_left = @ - 1]
          [] next.id = "OPEN_PARENTHESIS" ->
                IF s.decl.name = "" THEN Rejected(skipped, "Expected identifier")
                ELSE IF s.defined THEN Rejected(skipped, "Invalid token")
                ELSE parameter_list(s, span_loop(q1, <<>>, s.lines_left, {"ASSIGN"}))
          [] next.id = "ASSIGN" ->
                IF s.decl.name = "" THEN Rejected(skipped, "Expected identifier")
                ELSE IF s.defined THEN Rejected(skipped, "Invalid token")
                ELSE assigned(s, span_loop(q1, <<>>, s.lines_left, {}))
          [] next.id = "IDENTIFIER" ->
                IF s.decl.name # "" THEN Rejected(skipped, "Invalid token")
                ELSE [skipped EXCEPT !.decl.name = next.content]
          [] next.id = "WHITESPACE" -> skipped
          [] OTHER ->
                IF s.decl.name # "" THEN Rejected(skipped, "Expected =")
                ELSE Rejected(skipped, "Expected identifier")

\* pre_parse_loose_expression, one round of the loop that collects the tokens
\* (parser.rs 75-82); the collected tokens are parsed whatever they are
loose_token(s) ==
    LET next == get(s.queue)
        skipped == [s EXCEPT !.queue = remove(s.queue), !.defined = TRUE]
    IN  CASE next.id = "PIPE" -> [skipped EXCEPT !.lines_left = @ + 1]
          [] next.id = "NEW_LINE" -> [skipped EXCEPT !.lines_left = @ - 1]
          [] next.id = "WHITESPACE" -> skipped
          [] OTHER -> [skipped EXCEPT !.decl.tokens = Append(@, next)]

\* the loop of pre_parse_variable, pre_parse_function and
\* pre_parse_loose_expression: `while lines_left > 0 && queue.is_not_empty()`
RECURSIVE declaration_loop(_)
declaration_loop(s) ==
    IF s.err # "" \/ s.lines_left <= 0 \/ is_empty(s.queue) THEN s
    ELSE declaration_loop(CASE s.decl.kind \in {"LET", "CONST"} -> variable_token(s)
                            [] s.decl.kind = "DEFINE" -> function_token(s)
                            [] OTHER -> loose_token(s))

\* pre_parse_variable over the token stream, the keyword consumed
pre_parse_variable_tokens(queue, keyword) ==
    declaration_loop(Declaring(queue, IF keyword = "CONST" THEN Const("", <<>>)
                                      ELSE Let("", <<>>)))

\* pre_parse_function over the token stream, the keyword consumed
pre_parse_function_tokens(queue) ==
    declaration_loop(Declaring(queue, Define("", <<>>, FALSE, <<>>)))

\* pre_parse_loose_expression over the token stream
pre_parse_loose_expression_tokens(queue) ==
    declaration_loop(Declaring(queue, Loose(<<>>)))

\* the variables of the pre-parse loop: the queue, the declarations cut from it
\* so far, and the error raised
Lines(queue) == [queue |-> queue, decls |-> <<>>, err |-> ""]

\* a declaration is kept when its body span was captured
declared(state, s) ==
    [queue |-> s.queue,
     decls |-> IF s.err = "" \/ s.defined THEN Append(state.decls, s.decl)
               ELSE state.decls,
     err |-> s.err]

\* parse, one round of the pre-parse loop (parser.rs 17-32)
declaration(state) ==
    LET next == get(state.queue)
        q1 == remove(state.queue)
    IN  CASE next.id \in {"LET", "CONST"} ->
                declared(state, pre_parse_variable_tokens(q1, next.id))
          [] next.id = "DEFINE" -> declared(state, pre_parse_function_tokens(q1))
          [] next.id \in {"WHITESPACE", "NEW_LINE"} -> [state EXCEPT !.queue = q1]
          [] OTHER -> declared(state, pre_parse_loose_expression_tokens(back(q1)))

\* parse, the pre-parse loop over the token stream (parser.rs 16-33), stopping at
\* the first error
RECURSIVE parse_tokens(_)
parse_tokens(state) ==
    IF is_empty(state.queue) \/ state.err # "" THEN state
    ELSE parse_tokens(declaration(state))

NoSpans == [variables |-> <<>>, functions |-> <<>>, loose |-> <<>>, err |-> "",
            spans |-> <<>>]

\* fake_variable: a parameter as a pseudo-variable of the function's resolution
fake_variable(name) ==
    [name |-> name, definition |-> ExprNone, pre_definition |-> PartNone,
     constant |-> FALSE]

\* a definition sees the variables declared up to its own declaration
post_parse_variable_earlier(var, variables, functions) ==
    LET i == CHOOSE i \in 1..Len(variables) : variables[i].name = var.name
        r == actual_parse_expression(var.pre_definition, SubSeq(variables, 1, i), functions)
    IN  [variable |-> [var EXCEPT !.definition = r.expr, !.pre_definition = PartNone],
         err |-> r.err]

\* post_parse_variable
post_parse_variable(var, variables, functions) ==
    LET r == actual_parse_expression(var.pre_definition, variables, functions)
    IN  [variable |-> [var EXCEPT !.definition = r.expr, !.pre_definition = PartNone],
         err |-> r.err]

\* post_parse_function: the parameters join the variables for the body
post_parse_function(func, variables, functions) ==
    LET scope == variables \o [i \in 1..Len(func.parameters) |-> fake_variable(func.parameters[i])]
        r == actual_parse_expression(func.pre_definition, scope, functions)
    IN  [function |-> [func EXCEPT !.definition = r.expr, !.pre_definition = PartNone],
         err |-> r.err]

NoTree == [functions |-> <<>>, variables |-> <<>>, loose_expressions |-> <<>>, err |-> ""]

\* the first error of a sequence of outcomes, "" if there is none
first_error(outcomes) ==
    IF \A i \in 1..Len(outcomes) : outcomes[i].err = "" THEN ""
    ELSE outcomes[CHOOSE i \in 1..Len(outcomes) :
                     /\ outcomes[i].err # ""
                     /\ \A j \in 1..(i - 1) : outcomes[j].err = ""].err

\* parse, the post-parse (parser.rs 35-58): variables, then functions, then the
\* loose expressions that are no comments
post_parse(p) ==
    LET vs == [i \in 1..Len(p.variables) |->
                  post_parse_variable(p.variables[i], p.variables, p.functions)]
        fs == [i \in 1..Len(p.functions) |->
                  IF p.functions[i].definition = External
                  THEN [function |-> p.functions[i], err |-> ""]
                  ELSE post_parse_function(p.functions[i], p.variables, p.functions)]
        variables == [i \in 1..Len(vs) |-> vs[i].variable]
        functions == [i \in 1..Len(fs) |-> fs[i].function]
        kept == SelectSeq(p.loose, LAMBDA e : e # PartComment)
        ls == [i \in 1..Len(kept) |-> actual_parse_expression(kept[i], variables, functions)]
        err == first_error(vs \o fs \o ls)
    IN  IF err # "" THEN [NoTree EXCEPT !.err = err]
        ELSE [functions |-> functions, variables |-> variables,
              loose_expressions |-> [i \in 1..Len(ls) |-> ls[i].expr], err |-> ""]

NoRuntime == [variables |-> <<>>, functions |-> <<>>, stdout |-> <<>>,
              recorded |-> <<>>, returned |-> <<>>, panic |-> ""]

(***************************************************************************)
(* The programs the model runs.  Literals range over 0..MaxLit.            *)
(***************************************************************************)
Lit == 0..MaxLit

SumOps == {"PLUS", "MINUS"}
ProductOps == {"MULTIPLY", "DIVIDE", "POW"}
ArithmeticOps == SumOps \cup ProductOps
ComparisonOps == {"EQUALS", "NOT_EQUALS", "BIGGER_OR_EQUALS", "BIGGER",
                  "SMALLER_OR_EQUALS", "SMALLER"}

\* a op1 b op2 c
Chain(a, op1, b, op2, c) == <<Loose(<<Num(a), Op(op1), Num(b), Op(op2), Num(c)>>)>>

\* (a op1 b) op2 c
Grouped(a, op1, b, op2, c) ==
    <<Loose(<<LP, Num(a), Op(op1), Num(b), RP, Op(op2), Num(c)>>)>>

\* a op b
Binary(a, op, b) == <<Loose(<<Num(a), Op(op), Num(b)>>)>>

\* the operands of the chains that hold ^, whose value stays within 32 bits
PowLit == {0, 1, 2}

ExpressionPrograms ==
    {Chain(a, op1, b, op2, c) :
        a \in Lit, b \in Lit, c \in Lit,
        op1 \in ArithmeticOps \ {"POW"}, op2 \in ArithmeticOps \ {"POW"}}
    \cup {Chain(a, op1, b, op2, c) :
        a \in PowLit, b \in PowLit, c \in PowLit,
        op1 \in ArithmeticOps, op2 \in ArithmeticOps}
    \cup {Chain(2, "POW", 3, "MULTIPLY", 2)}
    \cup {Grouped(a, op1, b, op2, c) :
        a \in Lit, b \in Lit, c \in Lit, op1 \in SumOps, op2 \in ProductOps}
    \cup {Binary(a, op, b) : a \in Lit, b \in Lit, op \in ComparisonOps}

Call1(f, arg) == <<Id(f), LP>> \o arg \o <<RP>>

\* define [cache] f(n) = println(n) + n        (arity 1)
\* define [cache] f()  = println(7) + 5        (arity 0)
\* f(a)  f(b)
CacheTwice(cache, arity, a, b) ==
    IF arity = 1
    THEN <<Define("f", <<"n">>, cache, Call1("println", <<Id("n")>>) \o <<Op("PLUS"), Id("n")>>),
           Loose(Call1("f", <<Num(a)>>)),
           Loose(Call1("f", <<Num(b)>>))>>
    ELSE <<Define("f", <<>>, cache, Call1("println", <<Num(7)>>) \o <<Op("PLUS"), Num(5)>>),
           Loose(<<Id("f"), LP, RP>>),
           Loose(<<Id("f"), LP, RP>>)>>

\* let k = K
\* define cache f() = if(k == 0, 0, g() + 1)
\* define cache g() = (k = (k - 1)) * 0 + f() + 1
\* f()
Mutual(K) ==
    <<Let("k", <<Num(K)>>),
      Define("f", <<>>, TRUE,
             <<Id("if"), LP, Id("k"), Op("EQUALS"), Num(0), COMMA, Num(0), COMMA,
               Id("g"), LP, RP, Op("PLUS"), Num(1), RP>>),
      Define("g", <<>>, TRUE,
             <<LP, Id("k"), Op("ASSIGN"), LP, Id("k"), Op("MINUS"), Num(1), RP, RP,
               Op("MULTIPLY"), Num(0), Op("PLUS"), Id("f"), LP, RP, Op("PLUS"), Num(1)>>),
      Loose(<<Id("f"), LP, RP>>)>>

\* let x = a
\* let y = b
\* define [cache] f(p) = println(p) + (p = v)
\* [f(1)]                       only when warm
\* f(x*)
ReferenceCall(cache, p, a, b, v, warm) ==
    <<Let("x", <<Num(a)>>),
      Let("y", <<Num(b)>>),
      Define("f", <<p>>, cache,
             Call1("println", <<Id(p)>>) \o
             <<Op("PLUS"), LP, Id(p), Op("ASSIGN"), Num(v), RP>>)>>
    \o (IF warm THEN <<Loose(Call1("f", <<Num(1)>>))>> ELSE <<>>)
    \o <<Loose(Call1("f", <<Ref("x")>>))>>

\* define f(p) = g(b)
\* define g(q) = q
\* f(a)
Nested(p, q, a, b) ==
    <<Define("f", <<p>>, FALSE, Call1("g", <<Num(b)>>)),
      Define("g", <<q>>, FALSE, <<Id(q)>>),
      Loose(Call1("f", <<Num(a)>>))>>

AssignmentShapes == {"plain", "sum", "argument", "negated", "chained", "compared"}

\* an expression holding the assignment c = 2
Assigning(shape) ==
    LET assignment == <<Id("c"), Op("ASSIGN"), Num(2)>>
    IN  CASE shape = "plain" -> assignment
          [] shape = "sum" -> <<Num(1), Op("PLUS"), LP>> \o assignment \o <<RP>>
          [] shape = "argument" -> Call1("println", assignment)
          [] shape = "negated" -> <<Op("MINUS"), LP>> \o assignment \o <<RP>>
          [] shape = "chained" -> <<Id("v"), Op("ASSIGN"), LP>> \o assignment \o <<RP>>
          [] shape = "compared" -> <<Num(0), Op("SMALLER"), LP>> \o assignment \o <<RP>>

AssignmentPlaces == {"loose", "variable", "function"}

\* const c = 1   (or let c = 1)
\* let v = 0
\* the assignment c = 2 in a loose expression, in a variable definition or in a
\* function body; then println(c)
ConstantAssignment(constant, place, shape) ==
    <<IF constant THEN Const("c", <<Num(1)>>) ELSE Let("c", <<Num(1)>>),
      Let("v", <<Num(0)>>)>>
    \o (CASE place = "loose" -> <<Loose(Assigning(shape))>>
          [] place = "variable" -> <<Let("w", Assigning(shape)), Loose(<<Id("w")>>)>>
          [] place = "function" ->
                <<Define("h", <<>>, FALSE, Assigning(shape)), Loose(<<Id("h"), LP, RP>>)>>)
    \o <<Loose(Call1("println", <<Id("c")>>))>>

Names == {"p", "x", "y"}
ParameterPairs == {"n", "m"}
MaxK == 2

DeclarationPrograms ==
    {CacheTwice(cache, arity, a, b) :
        cache \in BOOLEAN, arity \in {0, 1}, a \in 0..1, b \in 0..1}
    \cup {Mutual(K) : K \in 0..MaxK}
    \cup {ReferenceCall(cache, p, a, b, v, warm) :
        cache \in BOOLEAN, p \in Names, a \in 0..1, b \in 0..1, v \in 2..3,
        warm \in BOOLEAN}
    \cup {Nested(p, q, a, b) :
        p \in ParameterPairs, q \in ParameterPairs, a \in 0..1, b \in 0..1}
    \cup {ConstantAssignment(constant, place, shape) :
        constant \in BOOLEAN, place \in AssignmentPlaces, shape \in AssignmentShapes}

\* a literal with an optional prefix minus
Signed(negative, n) == IF negative THEN <<Op("MINUS"), Num(n)>> ELSE <<Num(n)>>

MaxOperand == 7
Operands == 0..MaxOperand

ValueShapes == {"literal", "variable", "grouped", "sum"}

\* an expression of the value b (literal, variable) or b + 1 (grouped, sum),
\* with w = b
ValueOf(shape, b) ==
    CASE shape = "literal" -> <<Num(b)>>
      [] shape = "variable" -> <<Id("w")>>
      [] shape = "grouped" -> <<LP, Id("w"), Op("PLUS"), Num(1), RP>>
      [] shape = "sum" -> <<Id("w"), Op("PLUS"), Num(1)>>

\* let v = a
\* let w = b
\* v = e
\* v
\* v
Reassign(a, shape, b) ==
    <<Let("v", <<Num(a)>>),
      Let("w", <<Num(b)>>),
      Loose(<<Id("v"), Op("ASSIGN")>> \o ValueOf(shape, b)),
      Loose(<<Id("v")>>),
      Loose(<<Id("v")>>)>>

ForwardKinds == {"variable", "function", "chain"}

\* let a = b          let a = f()           let a = b
\* let b = n          define f() = n        let b = c
\* a                  a                     let c = n
\*                                          a
Forward(kind, n) ==
    CASE kind = "variable" ->
            <<Let("a", <<Id("b")>>), Let("b", <<Num(n)>>), Loose(<<Id("a")>>)>>
      [] kind = "function" ->
            <<Let("a", <<Id("f"), LP, RP>>), Define("f", <<>>, FALSE, <<Num(n)>>),
              Loose(<<Id("a")>>)>>
      [] kind = "chain" ->
            <<Let("a", <<Id("b")>>), Let("b", <<Id("c")>>), Let("c", <<Num(n)>>),
              Loose(<<Id("a")>>)>>

NegationShapes == {"literal", "variable", "grouped", "double", "negative"}

\* let x = n          let y = -n
\* -n   -x   -(x + 1)   - -n   -y
Negated(shape, n) ==
    <<Let("x", <<Num(n)>>),
      Let("y", <<Op("MINUS"), Num(n)>>),
      Loose(CASE shape = "literal" -> <<Op("MINUS"), Num(n)>>
              [] shape = "variable" -> <<Op("MINUS"), Id("x")>>
              [] shape = "grouped" ->
                    <<Op("MINUS"), LP, Id("x"), Op("PLUS"), Num(1), RP>>
              [] shape = "double" -> <<Op("MINUS"), Op("MINUS"), Num(n)>>
              [] shape = "negative" -> <<Op("MINUS"), Id("y")>>)>>

Effects == {"output", "assignment"}

\* let k = a
\* define [cache] f() = println(a) + a     or     define [cache] f() = (k = (k + 1))
\* -(f())
\* k
NegatedEffect(effect, cache, a) ==
    <<Let("k", <<Num(a)>>),
      Define("f", <<>>, cache,
             IF effect = "output"
             THEN Call1("println", <<Num(a)>>) \o <<Op("PLUS"), Num(a)>>
             ELSE <<LP, Id("k"), Op("ASSIGN"), LP, Id("k"), Op("PLUS"), Num(1), RP, RP>>),
      Loose(<<Op("MINUS"), LP, Id("f"), LP, RP, RP>>),
      Loose(<<Id("k")>>)>>

Divisors == 1..3

\* [-]a / [-]b
Division(negative_a, a, negative_b, b) ==
    <<Loose(Signed(negative_a, a) \o <<Op("DIVIDE")>> \o Signed(negative_b, b))>>

ZeroShapes == {"literal", "difference", "variable"}

\* let z = 0
\* println(8)
\* a / 0        or  a / (1 - 1)  or  a / z
\* println(9)
DivisionByZero(a, shape) ==
    <<Let("z", <<Num(0)>>),
      Loose(Call1("println", <<Num(8)>>)),
      Loose(<<Num(a), Op("DIVIDE")>> \o
            (CASE shape = "literal" -> <<Num(0)>>
               [] shape = "difference" -> <<LP, Num(1), Op("MINUS"), Num(1), RP>>
               [] shape = "variable" -> <<Id("z")>>)),
      Loose(Call1("println", <<Num(9)>>))>>

\* the exponents of two digits: the digits (0, 1), (1, 1) and (0, 2)
LargeExponents == {DigitBase, DigitBase + 1, 2 * DigitBase}

\* a ^ e
LargeExponent(a, e) == <<Loose(<<Num(a), Op("POW"), Num(e)>>)>>

\* the orders in which three different values are printed
Printed == {s \in [1..3 -> 1..3] : \A i \in 1..3, j \in 1..3 : s[i] = s[j] => i = j}

OrderShapes == {"statements", "operands", "chain", "mixed"}

\* println(a)      println(a) op println(b)      println(a) op println(b) op println(c)
\* println(b)      println(c)
\* println(c)
\* mixed: println(a) ; println(b) op println(c)
Ordered(shape, op, s) ==
    LET out(i) == Call1("println", <<Num(s[i])>>)
    IN  CASE shape = "statements" -> <<Loose(out(1)), Loose(out(2)), Loose(out(3))>>
          [] shape = "operands" -> <<Loose(out(1) \o <<Op(op)>> \o out(2)), Loose(out(3))>>
          [] shape = "chain" ->
                <<Loose(out(1) \o <<Op(op)>> \o out(2) \o <<Op(op)>> \o out(3))>>
          [] shape = "mixed" -> <<Loose(out(1)), Loose(out(2) \o <<Op(op)>> \o out(3))>>

OrderOps == {"PLUS", "MINUS", "MULTIPLY"}

TwiceShapes == {"arithmetic", "call", "nested", "negated", "lazy", "after"}

\* let x = a
\* let d = x + 1
\* define f(n) = n + x
\* define g(m) = f(m) * 2
\* define h(n) = f(n) + n
\* e
\* e
Twice(shape, a, b) ==
    LET e == CASE shape = "arithmetic" -> <<Id("x"), Op("PLUS"), Num(b), Op("MULTIPLY"), Num(2)>>
               [] shape = "call" -> Call1("f", <<Num(b)>>) \o <<Op("MINUS"), Id("x")>>
               [] shape = "nested" -> Call1("g", <<Num(b)>>)
               [] shape = "negated" -> <<Op("MINUS"), LP>> \o Call1("f", <<Num(b)>>) \o <<RP>>
               [] shape = "lazy" -> <<Id("d"), Op("MULTIPLY"), Id("d")>>
               [] shape = "after" -> Call1("h", <<Num(b)>>)
    IN  <<Let("x", <<Num(a)>>),
          Let("d", <<Id("x"), Op("PLUS"), Num(1)>>),
          Define("f", <<"n">>, FALSE, <<Id("n"), Op("PLUS"), Id("x")>>),
          Define("g", <<"m">>, FALSE, Call1("f", <<Id("m")>>) \o <<Op("MULTIPLY"), Num(2)>>),
          Define("h", <<"n">>, FALSE, Call1("f", <<Id("n")>>) \o <<Op("PLUS"), Id("n")>>),
          Loose(e),
          Loose(e)>>

JuxtaposedKinds == {"NUMBER", "IDENTIFIER", "CLOSE_PARENTHESIS", "COMMA", "SMALLER"}

\* let x = 1
\* a t b, with t a token that has no infix parser
Juxtaposed(a, kind, b) ==
    <<Let("x", <<Num(1)>>),
      Loose(<<Num(a)>> \o
            (CASE kind = "NUMBER" -> <<>>
               [] kind = "IDENTIFIER" -> <<Id("x")>>
               [] OTHER -> <<Op(kind)>>)
            \o <<Num(b)>>)>>

EvaluationPrograms ==
    {Reassign(a, shape, b) : a \in 0..1, shape \in ValueShapes, b \in 2..3}
    \cup {Forward(kind, n) : kind \in ForwardKinds, n \in Operands}
    \cup {Negated(shape, n) : shape \in NegationShapes, n \in Operands}
    \cup {NegatedEffect(effect, cache, a) :
            effect \in Effects, cache \in BOOLEAN, a \in 0..MaxLit}
    \cup {Division(negative_a, a, negative_b, b) :
            negative_a \in BOOLEAN, a \in Operands, negative_b \in BOOLEAN, b \in Divisors}
    \cup {DivisionByZero(a, shape) : a \in 0..MaxLit, shape \in ZeroShapes}
    \cup {LargeExponent(a, e) : a \in PowLit, e \in LargeExponents}
    \cup {Ordered(shape, op, s) : shape \in OrderShapes, op \in OrderOps, s \in Printed}
    \cup {Twice(shape, a, b) : shape \in TwiceShapes, a \in 0..1, b \in 0..MaxLit}
    \cup {Juxtaposed(a, kind, b) : a \in 0..1, kind \in JuxtaposedKinds, b \in 2..3}

Callees == {"plain", "nested", "before", "after"}

\* let x = a
\* define [cache] g(m) = m + x
\* define f(n) = g(n)
\* define k(n) = n + g(n)
\* define h(n) = g(n) + n
\* g(b)   or   f(b)   or   k(b)   or   h(b)
\* x
Frames(callee, cache, a, b) ==
    <<Let("x", <<Num(a)>>),
      Define("g", <<"m">>, cache, <<Id("m"), Op("PLUS"), Id("x")>>),
      Define("f", <<"n">>, FALSE, Call1("g", <<Id("n")>>)),
      Define("k", <<"n">>, FALSE, <<Id("n"), Op("PLUS")>> \o Call1("g", <<Id("n")>>)),
      Define("h", <<"n">>, FALSE, Call1("g", <<Id("n")>>) \o <<Op("PLUS"), Id("n")>>),
      Loose(CASE callee = "plain" -> Call1("g", <<Num(b)>>)
              [] callee = "nested" -> Call1("f", <<Num(b)>>)
              [] callee = "before" -> Call1("k", <<Num(b)>>)
              [] callee = "after" -> Call1("h", <<Num(b)>>)),
      Loose(<<Id("x")>>)>>

MaxChain == 3

\* let x = a
\* let y = 1
\* define f(p) = (p = v)
\* define g(q) = f(q*)
\* define h(r) = g(r*)
\* f(x*)   or   g(x*)   or   h(x*)        (a chain of 1, 2 or 3 references)
\* x
\* y
ReferenceChain(length, p, a, v) ==
    <<Let("x", <<Num(a)>>),
      Let("y", <<Num(1)>>),
      Define("f", <<p>>, FALSE, <<LP, Id(p), Op("ASSIGN"), Num(v), RP>>),
      Define("g", <<"q">>, FALSE, Call1("f", <<Ref("q")>>)),
      Define("h", <<"r">>, FALSE, Call1("g", <<Ref("r")>>)),
      Loose(CASE length = 1 -> Call1("f", <<Ref("x")>>)
              [] length = 2 -> Call1("g", <<Ref("x")>>)
              [] OTHER -> Call1("h", <<Ref("x")>>)),
      Loose(<<Id("x")>>),
      Loose(<<Id("y")>>)>>

\* const c = a    (or let c = a)
\* define f(p) = (p = v)
\* f(c*)
\* c
ConstantReference(constant, a, v) ==
    <<IF constant THEN Const("c", <<Num(a)>>) ELSE Let("c", <<Num(a)>>),
      Define("f", <<"p">>, FALSE, <<LP, Id("p"), Op("ASSIGN"), Num(v), RP>>),
      Loose(Call1("f", <<Ref("c")>>)),
      Loose(<<Id("c")>>)>>

RightSides == {"sum", "product", "grouped", "chained"}

\* let v = 0
\* let a = x
\* let b = y
\* v = a + b   or   v = a * b   or   v = (a + b)   or   a = b = 1
\* v
\* a
\* b
AssignmentRight(shape, x, y) ==
    <<Let("v", <<Num(0)>>),
      Let("a", <<Num(x)>>),
      Let("b", <<Num(y)>>),
      Loose(CASE shape = "sum" -> <<Id("v"), Op("ASSIGN"), Id("a"), Op("PLUS"), Id("b")>>
              [] shape = "product" ->
                    <<Id("v"), Op("ASSIGN"), Id("a"), Op("MULTIPLY"), Id("b")>>
              [] shape = "grouped" ->
                    <<Id("v"), Op("ASSIGN"), LP, Id("a"), Op("PLUS"), Id("b"), RP>>
              [] shape = "chained" ->
                    <<Id("a"), Op("ASSIGN"), Id("b"), Op("ASSIGN"), Num(1)>>),
      Loose(<<Id("v")>>),
      Loose(<<Id("a")>>),
      Loose(<<Id("b")>>)>>

CallSequences == {"other", "repeated", "distinct", "changed"}

\* other:    define [cache] g() = a ; define [cache] f() = b ; g() ; f() ; f()
\* repeated: define [cache] f(n) = n + 1 ; f(a) ; f(a)
\* distinct: define [cache] f(n) = n + 1 ; f(a) ; f(b)
\* changed:  let k = a ; define [cache] f(n) = n + 1 ; f(k) ; k = b ; f(k)
Memoized(calls, cache, a, b) ==
    LET successor == Define("f", <<"n">>, cache, <<Id("n"), Op("PLUS"), Num(1)>>)
    IN  CASE calls = "other" ->
                <<Define("g", <<>>, cache, <<Num(a)>>),
                  Define("f", <<>>, cache, <<Num(b)>>),
                  Loose(<<Id("g"), LP, RP>>),
                  Loose(<<Id("f"), LP, RP>>),
                  Loose(<<Id("f"), LP, RP>>)>>
          [] calls = "repeated" ->
                <<successor, Loose(Call1("f", <<Num(a)>>)), Loose(Call1("f", <<Num(a)>>))>>
          [] calls = "distinct" ->
                <<successor, Loose(Call1("f", <<Num(a)>>)), Loose(Call1("f", <<Num(b)>>))>>
          [] calls = "changed" ->
                <<Let("k", <<Num(a)>>),
                  successor,
                  Loose(Call1("f", <<Id("k")>>)),
                  Loose(<<Id("k"), Op("ASSIGN"), Num(b)>>),
                  Loose(Call1("f", <<Id("k")>>))>>

\* let n = a
\* define f(p) = p          (p is n, as the variable, or m)
\* f(b)
\* n
Shadowed(p, a, b) ==
    <<Let("n", <<Num(a)>>),
      Define("f", <<p>>, FALSE, <<Id(p)>>),
      Loose(Call1("f", <<Num(b)>>)),
      Loose(<<Id("n")>>)>>

\* define f(n) = if(n == 0, 0, f(n - 1))
\* f(k)
Recursive(k) ==
    <<Define("f", <<"n">>, FALSE,
             <<Id("if"), LP, Id("n"), Op("EQUALS"), Num(0), COMMA, Num(0), COMMA>>
             \o Call1("f", <<Id("n"), Op("MINUS"), Num(1)>>) \o <<RP>>),
      Loose(Call1("f", <<Num(k)>>))>>

\* let x = a
\* define f(p) = (p = v) + p      or     define f(p) = (p = v) + x
\* f(x*)
\* x
Aliased(read, a, v) ==
    <<Let("x", <<Num(a)>>),
      Define("f", <<"p">>, FALSE,
             <<LP, Id("p"), Op("ASSIGN"), Num(v), RP, Op("PLUS"), Id(read)>>),
      Loose(Call1("f", <<Ref("x")>>)),
      Loose(<<Id("x")>>)>>

ScopePrograms ==
    {Frames(callee, cache, a, b) :
        callee \in Callees, cache \in BOOLEAN, a \in 0..1, b \in 2..3}
    \cup {ReferenceChain(length, p, a, v) :
        length \in 1..MaxChain, p \in {"p", "y"}, a \in 0..1, v \in 2..3}
    \cup {ConstantReference(constant, a, v) :
        constant \in BOOLEAN, a \in 0..1, v \in 2..3}
    \cup {AssignmentRight(shape, x, y) : shape \in RightSides, x \in 2..3, y \in 4..5}
    \cup {Memoized(calls, cache, a, b) :
        calls \in CallSequences, cache \in BOOLEAN, a \in 0..1, b \in 2..3}
    \cup {Shadowed(p, a, b) : p \in ParameterPairs, a \in {0, 10}, b \in 2..3}
    \cup {Recursive(k) : k \in 0..MaxLit}
    \cup {Aliased(read, a, v) : read \in {"p", "x"}, a \in 0..1, v \in 2..3}

(***************************************************************************)
(* Programs as the lexer hands them over: one stream of tokens, every      *)
(* physical line ended by NEW_LINE.                                        *)
(***************************************************************************)
MaxBreaks == 2

\* the tokens of one declaration from the i-th on, as the lexer yields them:
\* whitespace between the tokens, after each position of breaks a `|` that
\* continues the declaration on the next line, and the NEW_LINE of its last line
RECURSIVE Continued(_, _, _)
Continued(tokens, breaks, i) ==
    IF i > Len(tokens) THEN <<NEW_LINE>>
    ELSE <<tokens[i]>>
         \o (IF i \in breaks THEN <<WHITESPACE, PIPE, NEW_LINE>>
             ELSE IF i < Len(tokens) THEN <<WHITESPACE>>
             ELSE <<>>)
         \o Continued(tokens, breaks, i + 1)

DeclarationKinds == {"let", "const", "define", "loose"}

\* the body a + b (n + b in the function f(n))
Body(kind, a, b) ==
    <<IF kind = "define" THEN Id("n") ELSE Num(a), Op("PLUS"), Num(b)>>

\* let x = a + b     const x = a + b     define f(n) = n + b     a + b
Declared(kind, a, b) ==
    (CASE kind = "let" -> <<Keyword("LET"), Id("x"), Op("ASSIGN")>>
       [] kind = "const" -> <<Keyword("CONST"), Id("x"), Op("ASSIGN")>>
       [] kind = "define" -> <<Keyword("DEFINE"), Id("f"), LP, Id("n"), RP, Op("ASSIGN")>>
       [] kind = "loose" -> <<>>)
    \o Body(kind, a, b)

\* the line after the declaration: x, f(a), or the loose expression b
Use(kind, a, b) ==
    CASE kind \in {"let", "const"} -> <<Id("x")>>
      [] kind = "define" -> Call1("f", <<Num(a)>>)
      [] kind = "loose" -> <<Num(b)>>

\* the positions after which a declaration of that kind is continued
BreakSets(kind) ==
    {s \in SUBSET (1..(Len(Declared(kind, 0, 0)) - 1)) : Cardinality(s) <= MaxBreaks}

LineProgram(kind, breaks, a, b) ==
    Continued(Declared(kind, a, b), breaks, 1) \o Continued(Use(kind, a, b), {}, 1)

LinePrograms ==
    UNION {{LineProgram(kind, breaks, a, b) :
               breaks \in BreakSets(kind), a \in 0..1, b \in 2..3} :
           kind \in DeclarationKinds}

(***************************************************************************)
(* The run of main.rs on one program: parse (pre-parse, then post-parse),  *)
(* then interpret (create the runtime, then execute the loose expressions  *)
(* in order).  The first error ends the run.                               *)
(***************************************************************************)
InitWith(programs) ==
    /\ source \in programs
    /\ phase = "lexed"
    /\ pre = NoPre
    /\ tree = NoTree
    /\ runtime = NoRuntime
    /\ exprs = <<>>
    /\ pc = 0
    /\ results = <<>>
    /\ error = ""

Init == InitWith(DeclarationPrograms)

InitExpr == InitWith(ExpressionPrograms)

InitEval == InitWith(EvaluationPrograms)

InitScope == InitWith(ScopePrograms)

InitLines ==
    /\ source \in LinePrograms
    /\ phase = "lexed"
    /\ pre = NoSpans
    /\ tree = NoTree
    /\ runtime = NoRuntime
    /\ exprs = <<>>
    /\ pc = 0
    /\ results = <<>>
    /\ error = ""

\* parse, lines 9-33
PreParse ==
    /\ phase = "lexed"
    /\ LET functions == [i \in 1..Len(ExternalFunctions) |-> map_function(ExternalFunctions[i])]
           p == pre_parse(source, 1, [NoPre EXCEPT !.functions = functions])
       IN  /\ pre' = p
           /\ phase' = IF p.err # "" THEN "failed" ELSE "preparsed"
           /\ error' = p.err
    /\ UNCHANGED <<source, tree, runtime, exprs, pc, results>>

\* parse, lines 9-33, on the declarations cut from the token stream: the failure
\* of a loop ends the run unless the expression parser fails on a span captured
\* before it
parsed_lines(lines, functions) ==
    pre_parse(lines.decls, 1,
              [NoSpans EXCEPT !.functions = functions,
                              !.err = lines.err,
                              !.spans = [i \in 1..Len(lines.decls) |-> lines.decls[i].tokens]])

pre_parsed(p) ==
    /\ pre' = p
    /\ phase' = IF p.err # "" THEN "failed" ELSE "preparsed"
    /\ error' = p.err

\* parse, lines 9-33, on the token stream
PreParseTokens ==
    /\ phase = "lexed"
    /\ pre_parsed(parsed_lines(parse_tokens(Lines(token_queue(source))),
                               [i \in 1..Len(ExternalFunctions) |->
                                    map_function(ExternalFunctions[i])]))
    /\ UNCHANGED <<source, tree, runtime, exprs, pc, results>>

\* parse, lines 35-58
PostParse ==
    /\ phase = "preparsed"
    /\ LET t == post_parse(pre)
       IN  /\ tree' = t
           /\ phase' = IF t.err # "" THEN "failed" ELSE "resolved"
           /\ error' = t.err
    /\ UNCHANGED <<source, pre, runtime, exprs, pc, results>>

\* interpret, lines 9-10
Create ==
    /\ phase = "resolved"
    /\ LET rt == create(tree)
           made == arguments_from(tree.loose_expressions, rt)
       IN  /\ runtime' = IF made.panic THEN [rt EXCEPT !.panic = UnwrapNone] ELSE rt
           /\ exprs' = made.args
           /\ phase' = IF made.panic THEN "failed"
                       ELSE IF made.args = <<>> THEN "finished" ELSE "running"
           /\ error' = IF made.panic THEN UnwrapNone ELSE ""
    /\ pc' = 1
    /\ UNCHANGED <<source, pre, tree, results>>

\* interpret, lines 12-14: one loose expression
Execute ==
    /\ phase = "running"
    /\ LET r == executed(exprs[pc], runtime)
       IN  /\ r.halted
           /\ runtime' = r.ast
           /\ IF r.ast.panic # ""
              THEN /\ phase' = "failed"
                   /\ error' = r.ast.panic
                   /\ UNCHANGED <<pc, results>>
              ELSE /\ phase' = IF pc = Len(exprs) THEN "finished" ELSE "running"
                   /\ error' = ""
                   /\ pc' = pc + 1
                   /\ results' = Append(results, r.val)
    /\ UNCHANGED <<source, pre, tree, exprs>>

Next == PreParse \/ PostParse \/ Create \/ Execute

Spec == Init /\ [][Next]_vars

SpecExpr == InitExpr /\ [][Next]_vars

SpecEval == InitEval /\ [][Next]_vars

SpecScope == InitScope /\ [][Next]_vars

NextLines == PreParseTokens \/ PostParse \/ Create \/ Execute

SpecLines == InitLines /\ [][NextLines]_vars

(***************************************************************************)
(* Properties of the runs.                                                 *)
(***************************************************************************)
\* the tree of x op y, and its value or the panic it raises
MathOf(op, x, y) == Math(x, y, MathType_of(Op(op).content))
Applied(op, x, y) == math_apply(MathType_of(Op(op).content), x, y)

Resolved_phases == {"resolved", "running", "finished"}

\* the run of the one-line program whose tree is outer(x, inner(y, z)) or
\* outer(inner(y, z), x): the tree the resolver built, the value of a finished
\* run, and the only failure, which is a panic of one of the two operations
Evaluates(line, shape, inner, outer) ==
    source = line =>
        /\ phase \in Resolved_phases => tree.loose_expressions = <<shape>>
        /\ phase = "finished" =>
              /\ inner.panic = "" /\ outer.panic = ""
              /\ results = <<outer.val>>
        /\ phase = "failed" =>
              /\ inner.panic # "" \/ outer.panic # ""
              /\ error = IF inner.panic # "" THEN inner.panic ELSE outer.panic

\* C1: an operator of the Product level binds tighter than one of the Sum level
\* on either side of it: `a s b p c` is a s (b p c) and `b p c s a` is
\* (b p c) s a, in the tree and in the value; `1 + 2 * 3` evaluates to 7.
C1_ProductBindsTighter ==
    /\ \A a \in Lit, b \in Lit, c \in Lit, s \in SumOps, p \in ProductOps :
          LET product == MathOf(p, NumberValue(b), NumberValue(c))
              inner == Applied(p, b, c)
          IN  /\ Evaluates(Chain(a, s, b, p, c),
                           MathOf(s, NumberValue(a), product),
                           inner, Applied(s, a, inner.val))
              /\ Evaluates(Chain(b, p, c, s, a),
                           MathOf(s, product, NumberValue(a)),
                           inner, Applied(s, inner.val, a))
    /\ source = Chain(1, "PLUS", 2, "MULTIPLY", 3) /\ phase = "finished"
          => results = <<7>>

C1_Witness ==
    \/ /\ source = Chain(1, "PLUS", 2, "MULTIPLY", 3)
       /\ phase = "finished"
       /\ results = <<7>>
    \/ /\ source = Chain(2, "MULTIPLY", 3, "MINUS", 1)
       /\ phase = "finished"
       /\ results = <<5>>

\* C2: a parenthesised span is parsed as one operand: `(a s b) p c` is
\* (a s b) p c in the tree and in the value; `(1 + 2) * 3` evaluates to 9.
C2_ParenthesesGroup ==
    /\ \A a \in Lit, b \in Lit, c \in Lit, s \in SumOps, p \in ProductOps :
          LET inner == Applied(s, a, b)
          IN  Evaluates(Grouped(a, s, b, p, c),
                        MathOf(p, MathOf(s, NumberValue(a), NumberValue(b)), NumberValue(c)),
                        inner, Applied(p, inner.val, c))
    /\ source = Grouped(1, "PLUS", 2, "MULTIPLY", 3) /\ phase = "finished"
          => results = <<9>>

C2_Witness ==
    /\ source = Grouped(1, "PLUS", 2, "MULTIPLY", 3)
    /\ phase = "finished"
    /\ results = <<9>>

\* C2 as stated: `(1 + 2) * 3` evaluates to 21.
C2_Original ==
    source = Grouped(1, "PLUS", 2, "MULTIPLY", 3) /\ phase = "finished"
        => results = <<21>>

SameLevel(op1, op2) ==
    \/ op1 \in SumOps /\ op2 \in SumOps
    \/ op1 \in ProductOps /\ op2 \in ProductOps

\* C3: operators of one level group left to right: `a op1 b op2 c` is
\* (a op1 b) op2 c, so `a - b - c` is (a - b) - c, and `2 ^ 3 * 2` evaluates
\* to 16.
C3_LeftToRight ==
    /\ \A a \in Lit, b \in Lit, c \in Lit, op1 \in ArithmeticOps, op2 \in ArithmeticOps :
          source = Chain(a, op1, b, op2, c) /\ SameLevel(op1, op2)
              /\ phase \in Resolved_phases
          => tree.loose_expressions =
                <<MathOf(op2, MathOf(op1, NumberValue(a), NumberValue(b)), NumberValue(c))>>
    /\ \A a \in Lit, b \in Lit, c \in Lit :
          source = Chain(a, "MINUS", b, "MINUS", c) /\ phase = "finished"
          => results = <<(a - b) - c>>
    /\ source = Chain(2, "POW", 3, "MULTIPLY", 2) /\ phase = "finished"
          => results = <<16>>

\* the relation a comparison token denotes
Holds(op, a, b) ==
    CASE op = "EQUALS" -> a = b
      [] op = "NOT_EQUALS" -> a # b
      [] op = "BIGGER_OR_EQUALS" -> a >= b
      [] op = "BIGGER" -> a > b
      [] op = "SMALLER_OR_EQUALS" -> a <= b
      [] op = "SMALLER" -> a < b

\* C4: each of the six comparisons == =! >= > <= < evaluates to 1 when
\* the relation holds and to 0 when it does not.
C4_Comparisons ==
    \A a \in Lit, b \in Lit, op \in ComparisonOps :
        source = Binary(a, op, b) =>
            /\ phase # "failed"
            /\ phase = "finished" => results = <<IF Holds(op, a, b) THEN 1 ELSE 0>>

\* C5: a cached function invoked twice with equal arguments that are not
\* references returns the recorded result the second time, and the side effect
\* of its body happens exactly once.
C5_SecondCallCached ==
    \A arity \in {0, 1}, a \in 0..1 :
        source = CacheTwice(TRUE, arity, a, a) =>
            /\ phase # "failed"
            /\ phase = "finished" =>
                  /\ results[2] = results[1]
                  /\ Len(runtime.stdout) = 1

\* the cache of the function named name holds the entry
InCache(name, entry) ==
    \E i \in 1..Len(runtime.functions) :
        /\ runtime.functions[i].name = name
        /\ \E j \in 1..Len(runtime.functions[i].cache) :
              runtime.functions[i].cache[j] = entry

\* C6: when two cached functions call each other, after the outermost call has
\* returned the cache of each function holds the entries the other function
\* recorded during the chain.
C6_CachesShared ==
    \A K \in 1..MaxK :
        source = Mutual(K) /\ phase = "finished" =>
            \A i \in 1..Len(runtime.recorded) :
                LET r == runtime.recorded[i]
                IN  /\ r.function = "f" => InCache("g", r.entry)
                    /\ r.function = "g" => InCache("f", r.entry)

\* the value a top-level variable holds; top-level variables come first
TopLevel(name) ==
    LET i == CHOOSE i \in 1..Len(runtime.variables) :
                 /\ runtime.variables[i].name = name
                 /\ ~runtime.variables[i].function_argument
    IN  runtime.variables[i].definition.orig

\* C7: after a function that is not cached assigns to a parameter bound to a
\* reference to the caller's top-level x, x holds the assigned value and no
\* other top-level variable has changed.
C7_ReferenceWritesBack ==
    \A p \in Names, a \in 0..1, b \in 0..1, v \in 2..3 :
        source = ReferenceCall(FALSE, p, a, b, v, FALSE) =>
            /\ phase # "failed"
            /\ phase = "finished" =>
                  /\ TopLevel("x") = NumberValue(v)
                  /\ TopLevel("y") = NumberValue(b)

RejectedPointer == "Cannot invoke cached function with pointer"

\* the loose expression to execute next invokes a function marked cache with a
\* reference among its arguments
CachedCallWithReference ==
    /\ phase = "running"
    /\ exprs[pc].orig.kind = "FunctionInvocation"
    /\ LET call == exprs[pc].orig
           made == arguments_from(call.arguments, runtime)
       IN  /\ ~made.panic
           /\ function_exists(runtime, call.function, Len(made.args))
           /\ lookup_function(runtime, call.function, Len(made.args)).cached
           /\ \E i \in 1..Len(made.args) : made.args[i].is_pointer

\* C8: the invocation of a cached function with a reference among its arguments
\* fails with the fatal error before the body is executed and before the cache
\* is read or written: nothing is printed, no variable and no cache changes,
\* no result is produced.
C8_ReferenceRejected ==
    [][CachedCallWithReference =>
          /\ phase' = "failed"
          /\ error' = RejectedPointer
          /\ runtime' = [runtime EXCEPT !.panic = RejectedPointer]
          /\ results' = results]_vars

C8_Witness ==
    /\ \E p \in Names, a \in 0..1, b \in 0..1, v \in 2..3 :
          source = ReferenceCall(TRUE, p, a, b, v, TRUE)
    /\ phase = "failed"
    /\ error = RejectedPointer
    /\ runtime.stdout = <<1>>
    /\ Len(results) = 1

\* C9: a lookup made in a callee resolves to the callee's own parameters or to
\* top-level variables, never to a parameter binding of a caller, even when the
\* names are the same: g(b) called from f(a) returns its own argument.
C9_CalleeScope ==
    \A p \in ParameterPairs, q \in ParameterPairs, a \in 0..1, b \in 0..1 :
        source = Nested(p, q, a, b) =>
            /\ phase # "failed"
            /\ phase = "finished" => results = <<b>>

ConstantReassigned == "Cannot reassign constant"

\* C10: an assignment to a const variable in a loose expression, in a variable
\* definition or in a function body makes resolution fail with the
\* constant-reassignment error: no tree is produced and nothing is executed.
C10_ConstantNotAssigned ==
    \A place \in AssignmentPlaces, shape \in AssignmentShapes :
        source = ConstantAssignment(TRUE, place, shape) =>
            /\ phase \notin Resolved_phases
            /\ phase = "failed" =>
                  /\ error = ConstantReassigned
                  /\ runtime = NoRuntime
                  /\ results = <<>>

\* the value of the right side of the assignment of a shape, with w = b
ValueShape(shape, b) == IF shape \in {"literal", "variable"} THEN b ELSE b + 1

\* C11: after the loose expression `v = e` on a variable that is no constant
\* has executed, every later access to v yields the value e had when the
\* assignment ran; `let v = 1`, `v = 2`, `v` yields 2.
C11_AssignmentPersists ==
    \A a \in 0..1, shape \in ValueShapes, b \in 2..3 :
        source = Reassign(a, shape, b) =>
            /\ phase # "failed"
            /\ phase = "finished" =>
                  /\ results[2] = ValueShape(shape, b)
                  /\ results[3] = ValueShape(shape, b)
                  /\ TopLevel("v") = NumberValue(ValueShape(shape, b))

\* C12: resolution does not depend on the order of the declarations: a
\* variable defined by a variable or by a function declared after it resolves
\* without a 'Variable not found' error and evaluates to the later one's value.
C12_OrderIndependent ==
    \A kind \in ForwardKinds, n \in Operands :
        source = Forward(kind, n) =>
            /\ phase # "failed"
            /\ error = ""
            /\ phase = "finished" => results = <<n>>

C12_Witness ==
    /\ source = Forward("variable", 5)
    /\ phase = "finished"
    /\ results = <<5>>

\* the operand of the negation of a shape, resolved, and its value
NegationOperand(shape, n) ==
    CASE shape = "literal" -> NumberValue(n)
      [] shape = "variable" -> VariableAccess("x")
      [] shape = "grouped" -> Math(VariableAccess("x"), NumberValue(1), "Add")
      [] shape = "double" -> negate(NumberValue(n))
      [] shape = "negative" -> VariableAccess("y")

NegationValue(shape, n) ==
    CASE shape \in {"literal", "variable"} -> n
      [] shape = "grouped" -> n + 1
      [] shape \in {"double", "negative"} -> 0 - n

\* C13: for an operand x without side effect that evaluates to n, `-x` is
\* resolved to x - (x * 2) and evaluates to -n; `-5` evaluates to -5.
C13_NegationValue ==
    /\ \A shape \in NegationShapes, n \in Operands :
          source = Negated(shape, n) =>
              /\ phase # "failed"
              /\ phase \in Resolved_phases =>
                    tree.loose_expressions = <<negate(NegationOperand(shape, n))>>
              /\ phase = "finished" => results = <<0 - NegationValue(shape, n)>>
    /\ source = Negated("literal", 5) /\ phase = "finished" => results = <<0 - 5>>

C13_Witness ==
    /\ source = Negated("literal", 5)
    /\ phase = "finished"
    /\ results = <<0 - 5>>

\* the side effect of f is observed times times after -(f()): that many lines
\* are printed, or k has grown by that much
Observed(effect, a, times) ==
    IF effect = "output"
    THEN runtime.stdout = [i \in 1..times |-> a]
    ELSE /\ TopLevel("k") = NumberValue(a + times)
         /\ results[2] = a + times

C15_DivisionTruncates ==
    /\ \A negative_a \in BOOLEAN, a \in Operands, negative_b \in BOOLEAN, b \in Divisors :
          source = Division(negative_a, a, negative_b, b) =>
              /\ phase # "failed"
              /\ phase = "finished" =>
                    /\ Len(results) = 1
                    /\ LET r == results[1]
                           magnitude == IF r < 0 THEN 0 - r ELSE r
                       IN  /\ magnitude * b <= a /\ a < (magnitude + 1) * b
                           /\ r < 0 <=> (negative_a # negative_b) /\ a >= b
    /\ source = Division(TRUE, 7, FALSE, 2) /\ phase = "finished" => results = <<0 - 3>>

C15_Witness ==
    /\ source = Division(TRUE, 7, FALSE, 2)
    /\ phase = "finished"
    /\ results = <<0 - 3>>

DivideByZero == "attempt to divide by zero"

DividesByZero == \E a \in 0..MaxLit, shape \in ZeroShapes : source = DivisionByZero(a, shape)

\* C16: `a / b` with b evaluating to 0 fails with the fatal division-by-zero
\* error: the step that executes it ends the run without a value, and the
\* loose expression after it is never executed.
C16_DivisionByZeroFatal ==
    /\ [](DividesByZero =>
             /\ phase # "finished"
             /\ Len(results) <= 1
             /\ \A i \in 1..Len(runtime.stdout) : runtime.stdout[i] # 9)
    /\ [][DividesByZero /\ phase = "running" /\ pc = 2 =>
             /\ phase' = "failed"
             /\ error' = DivideByZero
             /\ results' = results
             /\ runtime' = [runtime EXCEPT !.panic = DivideByZero]]_vars

C16_Witness ==
    /\ source = DivisionByZero(3, "literal")
    /\ phase = "failed"
    /\ error = DivideByZero
    /\ results = <<0>>
    /\ runtime.stdout = <<8>>

\* C17: `a ^ b` with an exponent b of more than one digit (b >= 2^32 in the
\* program, b >= DigitBase here) fails with a runtime error and produces no
\* value.
C17_ExponentRange ==
    \A a \in PowLit, e \in LargeExponents :
        source = LargeExponent(a, e) =>
            /\ phase # "finished"
            /\ results = <<>>

\* C18: effects happen in source order: the loose expressions are executed in
\* the order of their declaration, and in an arithmetic node every effect of
\* the left operand happens before any effect of the right operand.
C18_SourceOrder ==
    \A shape \in OrderShapes, op \in OrderOps, s \in Printed :
        source = Ordered(shape, op, s) =>
            /\ phase # "failed"
            /\ Len(runtime.stdout) <= 3
            /\ \A i \in 1..Len(runtime.stdout) : runtime.stdout[i] = s[i]
            /\ phase = "finished" => Len(runtime.stdout) = 3

C18_Witness ==
    /\ \E shape \in {"operands", "chain"} : source = Ordered(shape, "MINUS", <<2, 3, 1>>)
    /\ phase = "finished"
    /\ runtime.stdout = <<2, 3, 1>>

\* C19: evaluating one resolved expression twice in one environment, without
\* a cached function and without an assignment, yields the same integer both
\* times and leaves every variable of the environment as it was.
C19_Repeatable ==
    \A shape \in TwiceShapes, a \in 0..1, b \in 0..MaxLit :
        source = Twice(shape, a, b) =>
            /\ phase # "failed"
            /\ phase \in {"running", "finished"} =>
                  runtime.variables = create(tree).variables
            /\ phase = "finished" =>
                  /\ Len(results) = 2
                  /\ results[1] = results[2]

\* C20: a token without a registered infix parser met after a complete left
\* operand is a parse error: parsing aborts with 'Unknown infix' and never
\* returns leaving that token and the rest of the span unconsumed.
C20_UnknownInfix ==
    \A a \in 0..1, kind \in JuxtaposedKinds, b \in 2..3 :
        source = Juxtaposed(a, kind, b) =>
            /\ phase \in {"lexed", "failed"}
            /\ phase = "failed" => error = "Unknown infix" /\ pre.loose = <<>>

\* the names of the bindings the i-th return took out of the variables
RemovedNames(i) ==
    [j \in 1..Len(runtime.returned[i].removed) |-> runtime.returned[i].removed[j].name]

\* C21: when a function invocation returns, exactly the parameter bindings created
\* for that invocation have been removed: each return takes out the bindings of
\* the returning function's parameters and no other, every declared variable is
\* still present, and between two loose expressions no binding is tagged as a
\* parameter.
C21_ExactlyOwnParameters ==
    \A callee \in Callees, cache \in BOOLEAN, a \in 0..1, b \in 2..3 :
        source = Frames(callee, cache, a, b) =>
            /\ \A i \in 1..Len(runtime.returned) :
                   RemovedNames(i) = runtime.returned[i].parameters
            /\ phase \in {"running", "finished"} =>
                   /\ \A i \in 1..Len(runtime.variables) :
                          ~runtime.variables[i].function_argument
                   /\ \A j \in 1..Len(tree.variables) :
                          has_variable(runtime, tree.variables[j].name)

\* C22: assignment follows reference chains of any length: with p bound to a
\* reference that leads over 0, 1 or 2 further reference parameters to x, the
\* assignment `p = v` evaluates to v, x holds v afterwards, the other variable
\* is left alone, and all bindings of the chain are still references when f
\* returns.
C22_FollowsChains ==
    \A length \in 1..MaxChain, p \in {"p", "y"}, a \in 0..1, v \in 2..3 :
        source = ReferenceChain(length, p, a, v) =>
            /\ phase # "failed"
            /\ Len(results) >= 1 => results[1] = v
            /\ Len(results) >= 2 => results[2] = v
            /\ Len(results) >= 3 => results[3] = 1
            /\ Len(runtime.returned) >= 1 =>
                   /\ Len(runtime.returned[1].removed) = length
                   /\ \A j \in 1..Len(runtime.returned[1].removed) :
                          runtime.returned[1].removed[j].reference

\* C23: the definition of a constant never changes during execution, and a
\* reassignment attempted at run time is fatal: with `const c = a` and a call
\* f(c*) whose body assigns through the reference, c is still a in every state
\* and the call yields no value.
C23_ConstantNeverChanges ==
    \A a \in 0..1, v \in 2..3 :
        source = ConstantReference(TRUE, a, v) =>
            /\ results = <<>>
            /\ has_variable(runtime, "c") =>
                   lookup_variable(runtime, "c").definition.orig = NumberValue(a)

\* C24: a declaration continued with `|` spans several physical lines: for the
\* body of a let, a const and a define and for a loose expression alike, wherever
\* the `|` stand, the captured body span holds the tokens of every continued
\* line and ends with the declaration's last line, so that the program parses
\* and evaluates like the declaration written on one line.
C24_ContinuedBody ==
    \A kind \in DeclarationKinds, a \in 0..1, b \in 2..3 :
        \A breaks \in BreakSets(kind) :
            source = LineProgram(kind, breaks, a, b) =>
                /\ phase # "failed"
                /\ Len(pre.spans) >= 1 => pre.spans[1] = Body(kind, a, b)
                /\ Len(pre.spans) >= 2 => pre.spans[2] = Use(kind, a, b)
                /\ phase = "finished" =>
                       results = IF kind = "loose" THEN <<a + b, b>> ELSE <<a + b>>

\* the tree the right side of `v = ...` stands for
RightSide(shape) ==
    CASE shape = "product" -> Math(VariableAccess("a"), VariableAccess("b"), "Multiply")
      [] OTHER -> Math(VariableAccess("a"), VariableAccess("b"), "Add")

\* C25: the right side of an assignment is the whole remaining expression and
\* assignment groups to the right: `v = a + b` resolves to the assignment of the
\* sum to v, so that v holds the sum afterwards, and `a = b = 1` resolves to
\* a = (b = 1), so that a and b both hold 1.
C25_RightSideWhole ==
    \A shape \in RightSides, x \in 2..3, y \in 4..5 :
        source = AssignmentRight(shape, x, y) =>
            /\ phase # "failed"
            /\ phase \in Resolved_phases =>
                   tree.loose_expressions[1] =
                       IF shape = "chained"
                       THEN VariableAssignment("a", VariableAssignment("b", NumberValue(1)))
                       ELSE VariableAssignment("v", RightSide(shape))
            /\ phase = "finished" =>
                   results = CASE shape = "chained" -> <<1, 0, 1, 1>>
                               [] shape = "product" -> <<x * y, x * y, x, y>>
                               [] OTHER -> <<x + y, x + y, x, y>>

\* the values the calls of Memoized yield when every body is executed
Uncached(calls, a, b) ==
    CASE calls = "other" -> <<a, b, b>>
      [] calls = "repeated" -> <<a + 1, a + 1>>
      [] calls = "distinct" -> <<a + 1, b + 1>>
      [] calls = "changed" -> <<a + 1, b, b + 1>>

\* C26: memoization is sound: every call of a cached function with a body free
\* of side effects yields the value the execution of its body would yield for
\* the current argument values, after earlier calls of it and of other cached
\* functions; no entry of another function, or of an equal argument expression
\* that had another value, determines the result.
C26_MemoizationSound ==
    \A calls \in CallSequences, cache \in BOOLEAN, a \in 0..1, b \in 2..3 :
        source = Memoized(calls, cache, a, b) =>
            /\ phase # "failed"
            /\ \A i \in 1..Len(results) : results[i] = Uncached(calls, a, b)[i]

\* C27: inside a function body a parameter name yields the argument bound for
\* the invocation even when a variable has the same name: with `let n = a` and
\* `define f(n) = n`, f(b) evaluates to b and n is still a.
C27_ParameterShadows ==
    \A p \in ParameterPairs, a \in {0, 10}, b \in 2..3 :
        source = Shadowed(p, a, b) =>
            /\ phase # "failed"
            /\ Len(results) >= 1 => results[1] = b
            /\ Len(results) >= 2 => results[2] = a

\* C28: a nested call does not remove the caller's parameter bindings: a body
\* that calls g and reads its own parameter n, before the call (n + g(n)) or
\* after it (g(n) + n), finds n with the value bound at its own call, so the
\* call with argument b yields 2 * b + x.
C28_CallerBindingsKept ==
    \A callee \in {"before", "after"}, cache \in BOOLEAN, a \in 0..1, b \in 2..3 :
        source = Frames(callee, cache, a, b) =>
            /\ phase # "failed"
            /\ Len(results) >= 1 => results[1] = 2 * b + a

\* C29: a recursive call whose argument strictly decreases toward a base case
\* guarded by the lazy `if` terminates: for f(k) with
\* `define f(n) = if(n == 0, 0, f(n - 1))` the run does not fail, at most k + 1
\* invocations are open at once, and the call yields the base case's 0.
C29_RecursionTerminates ==
    \A k \in 0..MaxLit :
        source = Recursive(k) =>
            /\ phase # "failed"
            /\ Len(runtime.variables) <= k + 1
            /\ phase = "finished" => results = <<0>>

\* C30: a read through a reference reflects the referenced variable's current
\* value: in a call f(x*) whose body assigns v through the reference parameter
\* p, the read of p that follows yields v, like a read of x, so (p = v) + p and
\* (p = v) + x both yield 2 * v, and x holds v afterwards.
C30_ReferenceReadCurrent ==
    \A read \in {"p", "x"}, a \in 0..1, v \in 2..3 :
        source = Aliased(read, a, v) =>
            /\ phase # "failed"
            /\ Len(results) >= 1 => results[1] = 2 * v
            /\ Len(results) >= 2 => results[2] = v

=============================================================================
